---- MODULE Spec2Model ----
(***************************************************************************)
(* A model of the applicant bot: the action log (action_tracker.py), the   *)
(* user registry (user_data_handler.py), the incoming-video validator and  *)
(* confirmation handler (video_handler.py) and the conversation handlers   *)
(* (applicant_bot.py).                                                     *)
(*                                                                         *)
(* Python values are modelled as follows.  None is the empty tuple and an  *)
(* optional integer x is <<x>>; a dict is a function whose DOMAIN is the   *)
(* set of its keys; a str that the code only passes around is a TLA+       *)
(* string; a str that the code compares (the isoformat timestamps sorted   *)
(* by get_user_action_summary) is the tuple of its code points.  A JSON    *)
(* file is the value its text denotes together with two flags: whether the *)
(* file exists and whether its text parses to a list.                      *)
(***************************************************************************)
EXTENDS Integers, Sequences, FiniteSets, TLC

VARIABLES
    actions_file,   \* user_actions.json
    users_file,     \* applicant_users.json
    user_data,      \* context.user_data of the session
    keyboards,      \* inline keyboards still attached to messages of the chat
    downloads,      \* files written by download_video_locally
    trace,          \* what the last handler run did, in order
    inputs,         \* the updates handled so far in the session, in order
    call,           \* the last call made on the library functions
    result,         \* what the last read call returned
    recorded,       \* the events the log calls made so far were asked to record
    sessions,       \* user_data and keyboards of every chat, when several are served
    runs            \* the updates received and not yet handled to the end, in order

vars == <<actions_file, users_file, user_data, keyboards, downloads, trace,
          inputs, call, result, recorded, sessions, runs>>

----------------------------------------------------------------------------
(* Bounds of the model *)

\* handler runs of one session
MaxRuns == 6
\* events in the log when the library functions are called directly
MaxLogLen == 3
\* seconds around MAX_DURATION_SECS and bytes around the size limit that
\* the validator is tried on
Margin == 2

----------------------------------------------------------------------------
(* Python values *)

None == <<>>

Some(x) == <<x>>

\* x or 0
OrZero(x) == IF x = None THEN 0 ELSE x[1]

EmptyDict == [k \in {} |-> None]

\* d[k] = v
Put(d, k, v) == [x \in DOMAIN d \cup {k} |-> IF x = k THEN v ELSE d[x]]

\* d.pop(k, None)
Pop(d, k) == [x \in DOMAIN d \ {k} |-> d[x]]

\* the users of the model; Telegram user ids are positive
Users == {1, 2}

\* update.effective_user: a user, or None
OptUsers == {None} \cup {Some(u) : u \in Users}

----------------------------------------------------------------------------
(* datetime.now(timezone.utc).isoformat() and str comparison *)

\* An instant is [s |-> whole seconds, us |-> microseconds].  Of the text
\* YYYY-MM-DDTHH:MM:SS[.ffffff]+00:00 the model keeps SS[.ffffff]+00:00:
\* the fields before it are of fixed width and, within one minute, equal.
Digit(n) == 48 + n

TwoDigits(n) == <<Digit(n \div 10), Digit(n % 10)>>

SixDigits(n) ==
    <<Digit((n \div 100000) % 10), Digit((n \div 10000) % 10),
      Digit((n \div 1000) % 10), Digit((n \div 100) % 10),
      Digit((n \div 10) % 10), Digit(n % 10)>>

\* "+00:00"
UtcOffset == <<43, 48, 48, 58, 48, 48>>

\* isoformat leaves the fraction out when the microseconds are 0
isoformat(t) ==
    TwoDigits(t.s) \o (IF t.us = 0 THEN <<>> ELSE <<46>> \o SixDigits(t.us))
        \o UtcOffset

\* a < b for two str, as Python compares them: by code point, a proper
\* prefix first
RECURSIVE StrLess(_, _)
StrLess(a, b) ==
    IF b = <<>> THEN FALSE
    ELSE IF a = <<>> THEN TRUE
    ELSE IF a[1] /= b[1] THEN a[1] < b[1]
    ELSE StrLess(Tail(a), Tail(b))

\* list.sort() of a list of str (insertion into the sorted rest; the sort
\* is stable, and equal str are indistinguishable)
RECURSIVE InsertSorted(_, _)
InsertSorted(x, s) ==
    IF s = <<>> THEN <<x>>
    ELSE IF StrLess(x, s[1]) THEN <<x>> \o s
    ELSE <<s[1]>> \o InsertSorted(x, Tail(s))

\* as sort, but leaving the list in the order of the log
unsorted(s) == s

RECURSIVE sort(_)
sort(s) ==
    IF s = <<>> THEN <<>> ELSE InsertSorted(s[Len(s)], sort(SubSeq(s, 1, Len(s) - 1)))

\* the instants the clock is sampled at: two seconds, each at the whole
\* second and one microsecond later
Instants == {[s |-> sec, us |-> u] : sec \in {0, 1}, u \in {0, 1}}

\* chronological order of instants
Before(t1, t2) == t1.s < t2.s \/ (t1.s = t2.s /\ t1.us < t2.us)

----------------------------------------------------------------------------
(* JSON files *)

\* a file that does not exist
NoFile == [exists |-> FALSE, parses |-> FALSE, is_list |-> FALSE, data |-> <<>>]

\* a file whose text json.loads rejects
Unparseable == [exists |-> TRUE, parses |-> FALSE, is_list |-> FALSE, data |-> <<>>]

\* a file whose text is JSON, but not a list
NotAList == [exists |-> TRUE, parses |-> TRUE, is_list |-> FALSE, data |-> <<>>]

\* out_path.write_text(json.dumps(existing, ...))
WriteList(existing) ==
    [exists |-> TRUE, parses |-> TRUE, is_list |-> TRUE, data |-> existing]

\* What the file system does to one append is io = [read, write]: read
\* is whether read_text succeeds; write is "ok", "refused" (write_text
\* cannot open the file, which stays as it was) or "torn" (the file was
\* opened, which truncates it, and the write failed).
StorageOk == [read |-> TRUE, write |-> "ok"]

StorageOutcomes == {[read |-> r, write |-> w] : r \in BOOLEAN, w \in {"ok", "refused", "torn"}}

\* the read at the head of _append_action_to_file and _append_user_event:
\* a missing file, a text that does not parse and a value that is no list
\* all give []
ReadExisting(file) ==
    IF file.exists /\ file.parses /\ file.is_list THEN file.data ELSE <<>>

\* the same read under io: a read_text that raises gives [] as well
ReadUnder(file, io) == IF io.read THEN ReadExisting(file) ELSE <<>>

\* out_path.write_text(json.dumps(existing)) under io, on file
WriteUnder(file, existing, io) ==
    CASE io.write = "ok" -> WriteList(existing)
      [] io.write = "refused" -> file
      [] io.write = "torn" -> Unparseable

----------------------------------------------------------------------------
(* action_tracker.py *)

START == "start"
GOT_VIDEO == "got_video"
ASKED_ABOUT_WATCHED_VIDEO == "asked_about_watched_video"
ANSWERED_ABOUT_WATCHED_VIDEO == "answered_about_watched_video"
ASKED_TO_SHOOT_VIDEO == "asked_to_shoot_video"
ANSWERED_TO_SHOOT_VIDEO == "answered_to_shoot_video"
GOT_INSTRUCTIONS == "got_instructions"
SENT_VIDEO == "sent_video"
ASKED_TO_CONFIRM_SENDING == "asked_to_confirm_sending"
ANSWERED_CONFIRM_SENDING == "answered_confirm_sending"
ASKED_TO_CONFIRM_PRIVACY == "asked_to_confirm_privacy"
ANSWERED_CONFIRM_PRIVACY == "answered_confirm_privacy"
ASKED_WHY_HESITANT_OR_REJECT == "asked_why_hesitant_or_reject"
ANSWERED_WHY_HESITANT_OR_REJECT == "answered_why_hesitant_or_reject"
START_TRIGGERED_AGAIN == "start_triggered_again"

ActionType ==
    {START, GOT_VIDEO, ASKED_ABOUT_WATCHED_VIDEO, ANSWERED_ABOUT_WATCHED_VIDEO,
     ASKED_TO_SHOOT_VIDEO, ANSWERED_TO_SHOOT_VIDEO, GOT_INSTRUCTIONS, SENT_VIDEO,
     ASKED_TO_CONFIRM_SENDING, ANSWERED_CONFIRM_SENDING, ASKED_TO_CONFIRM_PRIVACY,
     ANSWERED_CONFIRM_PRIVACY, ASKED_WHY_HESITANT_OR_REJECT,
     ANSWERED_WHY_HESITANT_OR_REJECT, START_TRIGGERED_AGAIN}

\* update.effective_user.id if update.effective_user else None
get_user_id_from_update(effective_user) == effective_user

\* the entry _log_action builds: action_type, user_id, timestamp, and the
\* keys of additional_data (kept apart in extra; no caller passes one of
\* the three fixed keys)
ActionEntry(action_type, user_id, additional_data, now) ==
    [action_type |-> action_type, user_id |-> user_id,
     timestamp |-> isoformat(now), extra |-> additional_data]

\* as _append_action_to_file, but writing the new entry alone
append_action_forgetting(file, action_entry, io) ==
    WriteUnder(file, <<action_entry>>, io)

\* as _append_action_to_file, but leaving alone a file that does not hold
\* a list
append_action_sparing(file, action_entry, io) ==
    IF file.exists /\ ~(file.parses /\ file.is_list) THEN file
    ELSE WriteUnder(file, Append(ReadUnder(file, io), action_entry), io)

\* _append_action_to_file; io is what the file operations do, and every
\* failure is swallowed
append_action_to_file(file, action_entry, io) ==
    WriteUnder(file, Append(ReadUnder(file, io), action_entry), io)

log_action(file, action_type, user_id, additional_data, now, io) ==
    append_action_to_file(file,
        ActionEntry(action_type, user_id, additional_data, now), io)

\* as a log_* function without its `if user_id:`
LogForUnguarded(file, effective_user, action_type, additional_data, now, io) ==
    log_action(file, action_type, OrZero(effective_user), additional_data, now, io)

\* every log_* function: user_id = _get_user_id_from_update(update);
\* if user_id: _log_action(TYPE, user_id, ...)
LogFor(file, effective_user, action_type, additional_data, now, io) ==
    LET user_id == get_user_id_from_update(effective_user)
    IN  IF user_id /= None /\ user_id[1] /= 0
        THEN log_action(file, action_type, user_id[1], additional_data, now, io)
        ELSE file

\* get_user_actions
get_user_actions(file, user_id) ==
    IF ~file.exists \/ ~file.parses \/ ~file.is_list THEN <<>>
    ELSE SelectSeq(file.data, LAMBDA action : action.user_id = user_id)

\* the action_counts dict of get_user_action_summary
ActionCounts(actions) ==
    [ty \in {actions[i].action_type : i \in DOMAIN actions} |->
        Cardinality({i \in DOMAIN actions : actions[i].action_type = ty})]

\* get_user_action_summary
get_user_action_summary(file, user_id) ==
    LET actions == get_user_actions(file, user_id)
        timestamps == sort([i \in DOMAIN actions |-> actions[i].timestamp])
    IN  IF actions = <<>>
        THEN [user_id |-> user_id, total_actions |-> 0, actions |-> <<>>]
        ELSE [user_id |-> user_id,
              total_actions |-> Len(actions),
              first_action |-> IF timestamps /= <<>> THEN Some(timestamps[1]) ELSE None,
              last_action |-> IF timestamps /= <<>> THEN Some(timestamps[Len(timestamps)]) ELSE None,
              action_counts |-> ActionCounts(actions),
              actions |-> actions]

----------------------------------------------------------------------------
(* user_data_handler.py *)

\* the clean_entry of _append_user_event
CleanEntry(entry) ==
    [user_id |-> entry.user_id[1], username |-> entry.username,
     first_name |-> entry.first_name, last_name |-> entry.last_name,
     language_code |-> entry.language_code]

\* as _append_user_event, but replacing the record of a known user
append_user_event_updating(file, entry, io) ==
    LET existing == ReadUnder(file, io)
        user_id == entry.user_id
    IN  IF user_id /= None /\ user_id[1] /= 0
        THEN IF \E i \in DOMAIN existing : existing[i].user_id = user_id[1]
             THEN WriteUnder(file, [i \in DOMAIN existing |->
                                       IF existing[i].user_id = user_id[1]
                                       THEN CleanEntry(entry) ELSE existing[i]], io)
             ELSE WriteUnder(file, Append(existing, CleanEntry(entry)), io)
        ELSE file

\* _append_user_event; entry.user_id is an optional integer
append_user_event(file, entry, io) ==
    LET existing == ReadUnder(file, io)
        user_id == entry.user_id
    IN  IF user_id /= None /\ user_id[1] /= 0
           /\ ~(\E i \in DOMAIN existing : existing[i].user_id = user_id[1])
        THEN WriteUnder(file, Append(existing, CleanEntry(entry)), io)
        ELSE file

\* the dict collect_user_data builds
Collected(user_id, username, first_name, last_name, language_code) ==
    [user_id |-> user_id, username |-> username, first_name |-> first_name,
     last_name |-> last_name, language_code |-> language_code]

----------------------------------------------------------------------------
(* video_handler.py: the validator *)

MAX_DURATION_SECS == 90

TOO_LONG == "Video too long: re-record a shorter one, up to 60 seconds"
TOO_LARGE == "Video over the maximum size of 50 MB: record a video note"

\* file_size / (1024 * 1024) > mb.  The division is a float division by a
\* power of two, exact for every size below 2^53, so the comparison is the
\* comparison of the integers.
SizeMbOver(file_size, mb) == file_size > mb * (1024 * 1024)

\* as _validate_incoming_video, but with duration >= max_duration
validate_incoming_video_inclusive(file_size, duration, max_duration) ==
    IF duration >= max_duration THEN TOO_LONG
    ELSE IF file_size /= None /\ file_size[1] /= 0 /\ SizeMbOver(file_size[1], 50)
         THEN TOO_LARGE
         ELSE ""

\* as _validate_incoming_video, but refusing a size that is not given
validate_incoming_video_sized(file_size, duration, max_duration) ==
    IF duration > max_duration THEN TOO_LONG
    ELSE IF file_size = None \/ file_size[1] = 0 \/ SizeMbOver(file_size[1], 50)
         THEN TOO_LARGE
         ELSE ""

\* _validate_incoming_video; file_size is an optional integer (`if
\* file_size:` skips None and 0), duration an integer
validate_incoming_video(file_size, duration, max_duration) ==
    IF duration > max_duration THEN TOO_LONG
    ELSE IF file_size /= None /\ file_size[1] /= 0 /\ SizeMbOver(file_size[1], 50)
         THEN TOO_LARGE
         ELSE ""

----------------------------------------------------------------------------
(* One handler run *)

\* A handler run threads a context c through its steps:
\*   af, uf  the two JSON files       ud  context.user_data
\*   kb      the keyboards attached   dl  the downloaded files
\*   tr      what the run did so far
\* and reads the parameters x of the run:
\*   user            update.effective_user (optional)
\*   profile         the username, names and language of that user
\*   now             the instant of the clock
\*   io              what the file operations do (see StorageOutcomes)
\*   manager_dir     the state of the manager_video directory
\*   send_video_ok, download_ok, edit_ok, ack_ok, get_file_ok
\*                   whether these platform operations succeed
\*   send_fails      which of the text messages the run tries to send
\*                   fail, by their position among the tries
\* A platform operation that fails raises.  Where the code catches the
\* exception the run goes on; where it does not, the run ends there: tr
\* ends with a "raise" step and the later steps of the handler do nothing.

\* one step of a run: e is "ack", "log", "send", "send_failed",
\* "send_video", "edit", "get_file", "download" or "raise"; a is the
\* action type or the text sent; b the buttons sent
Eff(e, a, b) == [e |-> e, a |-> a, b |-> b]

\* an exception left the handler
Raised(c) == c.tr /= <<>> /\ c.tr[Len(c.tr)].e = "raise"

\* the call of operation a raises and nothing catches it
Raise(c, a) == [c EXCEPT !.tr = Append(@, Eff("raise", a, <<>>))]

\* whether the text message the run tries to send next fails
SendFails(c, x) ==
    (Cardinality({i \in DOMAIN c.tr : c.tr[i].e \in {"send", "send_failed"}}) + 1)
        \in x.send_fails

\* the texts of the prompts that carry buttons, and their callback_data
ASK_WATCHED == "ASK_WATCHED"
QUESTION_TEXT == "QUESTION_TEXT"
CONFIRM_TEXT == "CONFIRM_TEXT"
PRIVACY_TEXT == "PRIVACY_TEXT"
ASK_WHY == "ASK_WHY"
INTRO_TEXT == "INTRO_TEXT"
INSTRUCTIONS_TO_SHOOT_VIDEO_TEXT == "INSTRUCTIONS_TO_SHOOT_VIDEO_TEXT"
VIDEO_SAVED_TEXT == "VIDEO_SAVED_TEXT"

KeyboardPrompts == {ASK_WATCHED, QUESTION_TEXT, CONFIRM_TEXT, PRIVACY_TEXT, ASK_WHY}

\* a message delivered, with or without reply_markup
Delivered(c, text, buttons) ==
    [c EXCEPT !.tr = Append(@, Eff("send", text, buttons)),
              !.kb = IF buttons /= <<>> THEN [@ EXCEPT ![text] = @ + 1] ELSE @]

\* reply_text / send_message outside any try
Reply(c, x, text, buttons) ==
    IF Raised(c) THEN c
    ELSE IF SendFails(c, x) THEN Raise(c, text)
    ELSE Delivered(c, text, buttons)

\* try: reply_text / send_message except: (the failure is printed)
TryReply(c, x, text) ==
    IF Raised(c) THEN c
    ELSE IF SendFails(c, x)
         THEN [c EXCEPT !.tr = Append(@, Eff("send_failed", text, <<>>))]
         ELSE Delivered(c, text, <<>>)

\* query.answer()
Answer(c, x) ==
    IF Raised(c) THEN c
    ELSE IF ~x.ack_ok THEN Raise(c, "answer")
    ELSE [c EXCEPT !.tr = Append(@, Eff("ack", "", <<>>))]

\* try: query.edit_message_reply_markup(reply_markup=None) except: pass,
\* on the message that carries the keyboard of prompt
RemoveKeyboard(c, x, prompt) ==
    IF ~Raised(c) /\ x.edit_ok
    THEN [c EXCEPT !.tr = Append(@, Eff("edit", prompt, <<>>)),
                   !.kb = [@ EXCEPT ![prompt] = @ - 1]]
    ELSE c

\* as a log_* function called in a run, but letting the exception of a
\* failed write through
LogRaising(c, x, action_type, additional_data) ==
    IF Raised(c) THEN c
    ELSE IF get_user_id_from_update(x.user) /= None /\ x.io.write /= "ok"
    THEN Raise([c EXCEPT !.af = LogFor(@, x.user, action_type, additional_data,
                                       x.now, x.io)], action_type)
    ELSE [c EXCEPT
             !.af = LogFor(@, x.user, action_type, additional_data, x.now, x.io),
             !.tr = IF get_user_id_from_update(x.user) /= None
                    THEN Append(@, Eff("log", action_type, <<>>)) ELSE @]

\* a log_* function called in a run
Log(c, x, action_type, additional_data) ==
    IF Raised(c) THEN c
    ELSE [c EXCEPT
             !.af = LogFor(@, x.user, action_type, additional_data, x.now, x.io),
             !.tr = IF get_user_id_from_update(x.user) /= None
                    THEN Append(@, Eff("log", action_type, <<>>)) ELSE @]

Answered(answer) == [answer |-> answer]

log_start(c, x) == Log(c, x, START, EmptyDict)
log_got_video(c, x) == Log(c, x, GOT_VIDEO, EmptyDict)
log_asked_about_watched_video(c, x) == Log(c, x, ASKED_ABOUT_WATCHED_VIDEO, EmptyDict)
log_answered_about_watched_video(c, x, answer) ==
    Log(c, x, ANSWERED_ABOUT_WATCHED_VIDEO, Answered(answer))
log_asked_to_shoot_video(c, x) == Log(c, x, ASKED_TO_SHOOT_VIDEO, EmptyDict)
log_answered_to_shoot_video(c, x, answer) ==
    Log(c, x, ANSWERED_TO_SHOOT_VIDEO, Answered(answer))
log_got_instructions(c, x) == Log(c, x, GOT_INSTRUCTIONS, EmptyDict)
log_sent_video(c, x, video_info) == Log(c, x, SENT_VIDEO, video_info)
log_asked_to_confirm_sending(c, x) == Log(c, x, ASKED_TO_CONFIRM_SENDING, EmptyDict)
log_answered_confirm_sending(c, x, answer) ==
    Log(c, x, ANSWERED_CONFIRM_SENDING, Answered(answer))
log_asked_to_confirm_privacy(c, x) == Log(c, x, ASKED_TO_CONFIRM_PRIVACY, EmptyDict)
log_answered_confirm_privacy(c, x, answer) ==
    Log(c, x, ANSWERED_CONFIRM_PRIVACY, Answered(answer))
log_asked_why_hesitant_or_reject(c, x) ==
    Log(c, x, ASKED_WHY_HESITANT_OR_REJECT, EmptyDict)
log_answered_why_hesitant_or_reject(c, x, reason) ==
    Log(c, x, ANSWERED_WHY_HESITANT_OR_REJECT, [reason |-> reason])
log_start_triggered_again(c, x) == Log(c, x, START_TRIGGERED_AGAIN, EmptyDict)

\* collect_user_silently: the collected dict is stored in user_data and
\* handed to _append_user_event
collect_user_silently(c, x) ==
    LET collected ==
            [user_id |-> x.user, username |-> x.profile.username,
             first_name |-> x.profile.first_name, last_name |-> x.profile.last_name,
             language_code |-> x.profile.language_code,
             chat_id |-> x.user, chat_type |-> "private",
             timestamp |-> isoformat(x.now)]
    IN  IF Raised(c) THEN c
        ELSE [c EXCEPT !.ud = Put(@, "collected_user", collected),
                       !.uf = append_user_event(@, collected, x.io)]

\* context.user_data.get(k): the value, or None
Get(ud, k) == IF k \in DOMAIN ud THEN ud[k] ELSE None

\* the truth value of a dict or None: a dict is true unless it is empty
Truthy(d) == DOMAIN d /= {}

----------------------------------------------------------------------------
(* applicant_bot.py: the prompts *)

\* _validate_video_directory on a directory [exists, videos], videos being
\* the sizes in bytes of the video files found in it
validate_video_directory(dir) ==
    IF ~dir.exists THEN "FileNotFoundError"
    ELSE IF Len(dir.videos) /= 1 THEN "FileNotFoundError"
    ELSE IF SizeMbOver(dir.videos[1], 50) THEN "ValueError"
    ELSE "ok"

\* as ask_about_watched_video, but without the log entry
ask_about_watched_video_unlogged(c, x) ==
    Reply(c, x, ASK_WATCHED, <<"video_yes", "video_no", "video_not_seen">>)

ask_about_watched_video(c, x) ==
    Reply(log_asked_about_watched_video(c, x), x, ASK_WATCHED,
          <<"video_yes", "video_no", "video_not_seen">>)

\* as ask_to_shoot_video, but sending the prompt before the event is logged
ask_to_shoot_video_sending_first(c, x) ==
    log_asked_to_shoot_video(
        Reply(c, x, QUESTION_TEXT, <<"yes", "maybe", "no">>), x)

ask_to_shoot_video(c, x) ==
    Reply(log_asked_to_shoot_video(c, x), x, QUESTION_TEXT, <<"yes", "maybe", "no">>)

instructions_to_shoot_video(c, x) ==
    Reply(log_got_instructions(c, x), x, INSTRUCTIONS_TO_SHOOT_VIDEO_TEXT, <<>>)

ask_to_confirm_sending(c, x) ==
    Reply(log_asked_to_confirm_sending(c, x), x, CONFIRM_TEXT,
          <<"confirm_yes_privacy", "confirm_no">>)

privacy_policy_confirmation(c, x) ==
    Reply(log_asked_to_confirm_privacy(c, x), x, PRIVACY_TEXT,
          <<"privacy_confirm_yes", "privacy_confirm_no">>)

ask_why_hesitant_or_reject_to_shoot_video(c, x) ==
    Reply(log_asked_why_hesitant_or_reject(c, x), x, ASK_WHY,
          <<"reason_no_company", "reason_no_awkward", "reason_no_dont_know",
            "reason_no_privacy", "reason_no_other">>)

\* context.bot.send_video delivered
SendVideo(c) ==
    IF Raised(c) THEN c ELSE [c EXCEPT !.tr = Append(@, Eff("send_video", "", <<>>))]

\* as start, but logging got_video before the manager video is sent
start_logging_first(c, x) ==
    LET c1 == collect_user_silently(c, x)
        c2 == IF Truthy(Get(c1.ud, "collected_user"))
              THEN log_start_triggered_again(c1, x)
              ELSE log_start(c1, x)
        c3 == Reply(c2, x, INTRO_TEXT, <<>>)
        checked == validate_video_directory(x.manager_dir)
        c4 == IF checked = "ok"
              THEN IF x.send_video_ok
                   THEN SendVideo(log_got_video(c3, x))
                   ELSE Reply(log_got_video(c3, x), x, "SEND_VIDEO_ERROR", <<>>)
              ELSE Reply(c3, x, "MANAGER_VIDEO_ERROR", <<>>)
    IN  ask_about_watched_video(c4, x)

\* as start, but ending the run after the error text of a manager_video
\* directory that does not validate
start_stopping(c, x) ==
    LET c1 == collect_user_silently(c, x)
        c2 == IF Truthy(Get(c1.ud, "collected_user"))
              THEN log_start_triggered_again(c1, x)
              ELSE log_start(c1, x)
        c3 == Reply(c2, x, INTRO_TEXT, <<>>)
        checked == validate_video_directory(x.manager_dir)
        c4 == IF checked = "ok"
              THEN IF x.send_video_ok
                   THEN log_got_video(SendVideo(c3), x)
                   ELSE Reply(c3, x, "SEND_VIDEO_ERROR", <<>>)
              ELSE Reply(c3, x, "MANAGER_VIDEO_ERROR", <<>>)
    IN  IF checked = "ok" THEN ask_about_watched_video(c4, x) ELSE c4

\* start
start(c, x) ==
    LET c1 == collect_user_silently(c, x)
        c2 == IF Truthy(Get(c1.ud, "collected_user"))
              THEN log_start_triggered_again(c1, x)
              ELSE log_start(c1, x)
        c3 == Reply(c2, x, INTRO_TEXT, <<>>)
        checked == validate_video_directory(x.manager_dir)
        c4 == IF checked = "ok"
              THEN IF x.send_video_ok
                   THEN log_got_video(SendVideo(c3), x)
                   ELSE Reply(c3, x, "SEND_VIDEO_ERROR", <<>>)
              ELSE Reply(c3, x, "MANAGER_VIDEO_ERROR", <<>>)
    IN  ask_about_watched_video(c4, x)

\* as answer_map, but without the mapping
answer_map_missing(data) == data

\* answer_map.get(query.data, query.data)
answer_map(data) ==
    CASE data = "video_yes" -> "yes"
      [] data = "video_no" -> "no"
      [] data = "video_not_seen" -> "not_seen"
      [] OTHER -> data

\* feedback_about_watched_video
feedback_about_watched_video(c, x, data) ==
    LET c1 == Answer(c, x)
        c2 == log_answered_about_watched_video(c1, x, answer_map(data))
        c3 == RemoveKeyboard(c2, x, ASK_WATCHED)
        c4 == CASE data = "video_yes" -> Reply(c3, x, "GREAT", <<>>)
                [] data = "video_no" -> Reply(c3, x, "THANKS_FOR_HONESTY", <<>>)
                [] data = "video_not_seen" -> Reply(c3, x, "SORRY_TECHNICAL", <<>>)
                [] OTHER -> c3
    IN  ask_to_shoot_video(c4, x)

\* reason_map.get(query.data, query.data)
reason_map(data) ==
    CASE data = "reason_no_company" -> "no_company"
      [] data = "reason_no_awkward" -> "awkward"
      [] data = "reason_no_dont_know" -> "dont_know"
      [] data = "reason_no_privacy" -> "privacy"
      [] data = "reason_no_other" -> "other"
      [] OTHER -> data

\* feedback_why_hesitant_or_reject_to_shoot_video
feedback_why_hesitant_or_reject_to_shoot_video(c, x, data) ==
    LET c1 == Answer(c, x)
        c2 == log_answered_why_hesitant_or_reject(c1, x, reason_map(data))
        c3 == RemoveKeyboard(c2, x, ASK_WHY)
    IN  Reply(c3, x, "THANKS_FOR_FEEDBACK", <<>>)

\* as feedback_to_shoot_video, but taking maybe for yes
feedback_to_shoot_video_eager(c, x, data) ==
    LET c1 == Answer(c, x)
        c2 == log_answered_to_shoot_video(c1, x, data)
        c3 == RemoveKeyboard(c2, x, QUESTION_TEXT)
    IN  IF data = "yes" \/ data = "maybe" THEN instructions_to_shoot_video(c3, x)
        ELSE IF data = "no"
             THEN ask_why_hesitant_or_reject_to_shoot_video(c3, x)
             ELSE c3

\* feedback_to_shoot_video
feedback_to_shoot_video(c, x, data) ==
    LET c1 == Answer(c, x)
        c2 == log_answered_to_shoot_video(c1, x, data)
        c3 == RemoveKeyboard(c2, x, QUESTION_TEXT)
    IN  IF data = "yes" THEN instructions_to_shoot_video(c3, x)
        ELSE IF data = "maybe" \/ data = "no"
             THEN ask_why_hesitant_or_reject_to_shoot_video(c3, x)
             ELSE c3

----------------------------------------------------------------------------
(* video_handler.py: the handlers *)

\* as the three pops, but without the pop of pending_duration
ClearPendingPartly(ud) == Pop(Pop(ud, "pending_file_id"), "pending_kind")

\* the three pops that clear the pending submission
ClearPending(ud) ==
    Pop(Pop(Pop(ud, "pending_file_id"), "pending_kind"), "pending_duration")

\* as handle_video, but storing pending_duration only when the message
\* has a duration
handle_video_keeping(c, x, m) ==
    LET c1 == collect_user_silently(c, x)
        kind == m.kind
        duration == IF kind = "document_video" THEN None ELSE m.duration
        file_size == m.file_size
        error_msg == validate_incoming_video(
                         Some(OrZero(file_size)), OrZero(duration), MAX_DURATION_SECS)
        named == Put(Put(c1.ud, "pending_file_id", m.file_id), "pending_kind", kind)
        staged == Pop(IF duration = None THEN named
                      ELSE Put(named, "pending_duration", duration),
                      "video_confirmation_processed")
        video_info == [kind |-> kind, duration |-> duration, file_size |-> file_size]
    IN  IF error_msg /= "" THEN Reply(c1, x, error_msg, <<>>)
        ELSE ask_to_confirm_sending(
                 log_sent_video([c1 EXCEPT !.ud = staged], x, video_info), x)

\* as handle_video, but keeping the file id of a video that is still pending
handle_video_first_wins(c, x, m) ==
    LET c1 == collect_user_silently(c, x)
        kind == m.kind
        duration == IF kind = "document_video" THEN None ELSE m.duration
        file_size == m.file_size
        error_msg == validate_incoming_video(
                         Some(OrZero(file_size)), OrZero(duration), MAX_DURATION_SECS)
        file_id == IF "pending_file_id" \in DOMAIN c1.ud
                   THEN c1.ud["pending_file_id"] ELSE m.file_id
        staged == Pop(Put(Put(Put(c1.ud, "pending_file_id", file_id),
                                  "pending_kind", kind),
                              "pending_duration", duration),
                      "video_confirmation_processed")
        video_info == [kind |-> kind, duration |-> duration, file_size |-> file_size]
    IN  IF error_msg /= "" THEN Reply(c1, x, error_msg, <<>>)
        ELSE ask_to_confirm_sending(
                 log_sent_video([c1 EXCEPT !.ud = staged], x, video_info), x)

\* as handle_video, but staging the video before it is validated
handle_video_staging_first(c, x, m) ==
    LET c1 == collect_user_silently(c, x)
        kind == m.kind
        duration == IF kind = "document_video" THEN None ELSE m.duration
        file_size == m.file_size
        error_msg == validate_incoming_video(
                         Some(OrZero(file_size)), OrZero(duration), MAX_DURATION_SECS)
        staged == Pop(Put(Put(Put(c1.ud, "pending_file_id", m.file_id),
                                  "pending_kind", kind),
                              "pending_duration", duration),
                      "video_confirmation_processed")
        c2 == [c1 EXCEPT !.ud = staged]
        video_info == [kind |-> kind, duration |-> duration, file_size |-> file_size]
    IN  IF error_msg /= "" THEN Reply(c2, x, error_msg, <<>>)
        ELSE ask_to_confirm_sending(log_sent_video(c2, x, video_info), x)

\* as handle_video, but refusing a video once the user's log holds two
\* sent_video events
handle_video_capped(c, x, m) ==
    LET c1 == collect_user_silently(c, x)
        kind == m.kind
        duration == IF kind = "document_video" THEN None ELSE m.duration
        file_size == m.file_size
        error_msg == validate_incoming_video(
                         Some(OrZero(file_size)), OrZero(duration), MAX_DURATION_SECS)
        staged == Pop(Put(Put(Put(c1.ud, "pending_file_id", m.file_id),
                                  "pending_kind", kind),
                              "pending_duration", duration),
                      "video_confirmation_processed")
        video_info == [kind |-> kind, duration |-> duration, file_size |-> file_size]
        sent == SelectSeq(get_user_actions(c.af, x.user[1]),
                          LAMBDA action : action.action_type = SENT_VIDEO)
    IN  IF error_msg /= "" THEN Reply(c1, x, error_msg, <<>>)
        ELSE IF Len(sent) >= 2 THEN Reply(c1, x, "TOO_MANY_VIDEOS", <<>>)
        ELSE ask_to_confirm_sending(
                 log_sent_video([c1 EXCEPT !.ud = staged], x, video_info), x)

\* as handle_video, but leaving video_confirmation_processed in place
handle_video_flagged(c, x, m) ==
    LET c1 == collect_user_silently(c, x)
        kind == m.kind
        duration == IF kind = "document_video" THEN None ELSE m.duration
        file_size == m.file_size
        error_msg == validate_incoming_video(
                         Some(OrZero(file_size)), OrZero(duration), MAX_DURATION_SECS)
        staged == Put(Put(Put(c1.ud, "pending_file_id", m.file_id),
                              "pending_kind", kind),
                      "pending_duration", duration)
        video_info == [kind |-> kind, duration |-> duration, file_size |-> file_size]
    IN  IF error_msg /= "" THEN Reply(c1, x, error_msg, <<>>)
        ELSE ask_to_confirm_sending(
                 log_sent_video([c1 EXCEPT !.ud = staged], x, video_info), x)

\* handle_video on a message m = [kind, file_id, duration, file_size]:
\* kind says which of message.video, message.video_note and
\* message.document (of a video mime type) is set; duration and file_size
\* are optional, and the duration of a document is never read
handle_video(c, x, m) ==
    LET c1 == collect_user_silently(c, x)
        kind == m.kind
        duration == IF kind = "document_video" THEN None ELSE m.duration
        file_size == m.file_size
        error_msg == validate_incoming_video(
                         Some(OrZero(file_size)), OrZero(duration), MAX_DURATION_SECS)
        staged == Pop(Put(Put(Put(c1.ud, "pending_file_id", m.file_id),
                                  "pending_kind", kind),
                              "pending_duration", duration),
                      "video_confirmation_processed")
        video_info == [kind |-> kind, duration |-> duration, file_size |-> file_size]
    IN  IF error_msg /= "" THEN Reply(c1, x, error_msg, <<>>)
        ELSE ask_to_confirm_sending(
                 log_sent_video([c1 EXCEPT !.ud = staged], x, video_info), x)

\* the file download_video_locally writes: the directory and the parts of
\* the name {bot_type}_{user_id}_{timestamp}[_note].mp4
LocalFile(file_id, user_id, kind, bot_type, now) ==
    [dir |-> IF bot_type = "applicant" THEN "applicant_video" ELSE "manager_video",
     bot_type |-> bot_type, user_id |-> user_id, second |-> now.s,
     note |-> (kind = "video_note"), file_id |-> file_id]

\* as handle_video_confirmation, but clearing the pending submission when
\* the download failed
handle_video_confirmation_dropping(c, x, action, bot_type, prompt) ==
    LET c1 == Answer(c, x)
        has_file == "pending_file_id" \in DOMAIN c.ud
        c2 == log_answered_confirm_sending(c1, x, action)
        c3 == [c2 EXCEPT !.ud = Put(@, "video_confirmation_processed", TRUE)]
        kind == IF "pending_kind" \in DOMAIN c.ud THEN c.ud["pending_kind"] ELSE "video"
        error_msg == "DOWNLOAD_ERROR"
        c4 == [c3 EXCEPT !.tr = Append(@, Eff("get_file", "", <<>>)),
                         !.ud = ClearPending(@)]
        saved == [c4 EXCEPT
                     !.dl = Append(@, LocalFile(c.ud["pending_file_id"],
                                                x.user[1], kind, bot_type, x.now)),
                     !.tr = Append(@, Eff("download", "", <<>>)),
                     !.ud = ClearPending(@)]
        told == TryReply(saved, x, VIDEO_SAVED_TEXT)
    IN  IF Raised(c1) THEN c1
        ELSE IF "video_confirmation_processed" \in DOMAIN c.ud THEN c1
        ELSE IF action \in {"confirm_yes", "privacy_confirm_yes"}
        THEN IF ~has_file THEN Reply(c3, x, "NO_VIDEO_TO_SAVE", <<>>)
             ELSE IF ~x.get_file_ok THEN Raise(c3, "get_file")
             ELSE IF ~x.download_ok
             THEN IF x.edit_ok
                  THEN [c4 EXCEPT !.tr = Append(@, Eff("edit", error_msg, <<>>)),
                                  !.kb = [@ EXCEPT ![prompt] = @ - 1]]
                  ELSE Reply(c4, x, error_msg, <<>>)
             ELSE IF told.tr[Len(told.tr)].e = "send_failed"
                  THEN TryReply(told, x, VIDEO_SAVED_TEXT)
                  ELSE told
        ELSE Reply([c2 EXCEPT !.ud = ClearPending(@)], x, "RECORD_NEW_VIDEO", <<>>)

\* as handle_video_confirmation, but without the test of
\* video_confirmation_processed
handle_video_confirmation_repeating(c, x, action, bot_type, prompt) ==
    LET c1 == Answer(c, x)
        has_file == "pending_file_id" \in DOMAIN c.ud
        c2 == log_answered_confirm_sending(c1, x, action)
        c3 == [c2 EXCEPT !.ud = Put(@, "video_confirmation_processed", TRUE)]
        kind == IF "pending_kind" \in DOMAIN c.ud THEN c.ud["pending_kind"] ELSE "video"
        error_msg == "DOWNLOAD_ERROR"
        c4 == [c3 EXCEPT !.tr = Append(@, Eff("get_file", "", <<>>))]
        saved == [c4 EXCEPT
                     !.dl = Append(@, LocalFile(c.ud["pending_file_id"],
                                                x.user[1], kind, bot_type, x.now)),
                     !.tr = Append(@, Eff("download", "", <<>>)),
                     !.ud = ClearPending(@)]
        told == TryReply(saved, x, VIDEO_SAVED_TEXT)
    IN  IF Raised(c1) THEN c1
        ELSE IF action \in {"confirm_yes", "privacy_confirm_yes"}
        THEN IF ~has_file THEN Reply(c3, x, "NO_VIDEO_TO_SAVE", <<>>)
             ELSE IF ~x.get_file_ok THEN Raise(c3, "get_file")
             ELSE IF ~x.download_ok
             THEN IF x.edit_ok
                  THEN [c4 EXCEPT !.tr = Append(@, Eff("edit", error_msg, <<>>)),
                                  !.kb = [@ EXCEPT ![prompt] = @ - 1]]
                  ELSE Reply(c4, x, error_msg, <<>>)
             ELSE IF told.tr[Len(told.tr)].e = "send_failed"
                  THEN TryReply(told, x, VIDEO_SAVED_TEXT)
                  ELSE told
        ELSE Reply([c2 EXCEPT !.ud = ClearPending(@)], x, "RECORD_NEW_VIDEO", <<>>)

\* as handle_video_confirmation, but telling the user the video is saved
\* when none is pending
handle_video_confirmation_cheering(c, x, action, bot_type, prompt) ==
    LET c1 == Answer(c, x)
        has_file == "pending_file_id" \in DOMAIN c.ud
        c2 == log_answered_confirm_sending(c1, x, action)
        c3 == [c2 EXCEPT !.ud = Put(@, "video_confirmation_processed", TRUE)]
        kind == IF "pending_kind" \in DOMAIN c.ud THEN c.ud["pending_kind"] ELSE "video"
        error_msg == "DOWNLOAD_ERROR"
        c4 == [c3 EXCEPT !.tr = Append(@, Eff("get_file", "", <<>>))]
        saved == [c4 EXCEPT
                     !.dl = Append(@, LocalFile(c.ud["pending_file_id"],
                                                x.user[1], kind, bot_type, x.now)),
                     !.tr = Append(@, Eff("download", "", <<>>)),
                     !.ud = ClearPending(@)]
        told == TryReply(saved, x, VIDEO_SAVED_TEXT)
    IN  IF Raised(c1) THEN c1
        ELSE IF "video_confirmation_processed" \in DOMAIN c.ud THEN c1
        ELSE IF action \in {"confirm_yes", "privacy_confirm_yes"}
        THEN IF ~has_file THEN Reply(c3, x, VIDEO_SAVED_TEXT, <<>>)
             ELSE IF ~x.get_file_ok THEN Raise(c3, "get_file")
             ELSE IF ~x.download_ok
             THEN IF x.edit_ok
                  THEN [c4 EXCEPT !.tr = Append(@, Eff("edit", error_msg, <<>>)),
                                  !.kb = [@ EXCEPT ![prompt] = @ - 1]]
                  ELSE Reply(c4, x, error_msg, <<>>)
             ELSE IF told.tr[Len(told.tr)].e = "send_failed"
                  THEN TryReply(told, x, VIDEO_SAVED_TEXT)
                  ELSE told
        ELSE Reply([c2 EXCEPT !.ud = ClearPending(@)], x, "RECORD_NEW_VIDEO", <<>>)

\* handle_video_confirmation, pressed on the keyboard of prompt
handle_video_confirmation(c, x, action, bot_type, prompt) ==
    LET c1 == Answer(c, x)
        has_file == "pending_file_id" \in DOMAIN c.ud
        c2 == log_answered_confirm_sending(c1, x, action)
        c3 == [c2 EXCEPT !.ud = Put(@, "video_confirmation_processed", TRUE)]
        kind == IF "pending_kind" \in DOMAIN c.ud THEN c.ud["pending_kind"] ELSE "video"
        error_msg == "DOWNLOAD_ERROR"
        c4 == [c3 EXCEPT !.tr = Append(@, Eff("get_file", "", <<>>))]
        saved == [c4 EXCEPT
                     !.dl = Append(@, LocalFile(c.ud["pending_file_id"],
                                                x.user[1], kind, bot_type, x.now)),
                     !.tr = Append(@, Eff("download", "", <<>>)),
                     !.ud = ClearPending(@)]
        told == TryReply(saved, x, VIDEO_SAVED_TEXT)
    IN  IF Raised(c1) THEN c1
        ELSE IF "video_confirmation_processed" \in DOMAIN c.ud THEN c1
        ELSE IF action \in {"confirm_yes", "privacy_confirm_yes"}
        THEN IF ~has_file THEN Reply(c3, x, "NO_VIDEO_TO_SAVE", <<>>)
             ELSE IF ~x.get_file_ok THEN Raise(c3, "get_file")
             ELSE IF ~x.download_ok
             THEN IF x.edit_ok
                  THEN [c4 EXCEPT !.tr = Append(@, Eff("edit", error_msg, <<>>)),
                                  !.kb = [@ EXCEPT ![prompt] = @ - 1]]
                  ELSE Reply(c4, x, error_msg, <<>>)
             ELSE IF told.tr[Len(told.tr)].e = "send_failed"
                  THEN TryReply(told, x, VIDEO_SAVED_TEXT)
                  ELSE told
        ELSE Reply([c2 EXCEPT !.ud = ClearPending(@)], x, "RECORD_NEW_VIDEO", <<>>)

\* feedback_to_confirm_sending
feedback_to_confirm_sending(c, x, data) ==
    handle_video_confirmation(c, x, data, "applicant", CONFIRM_TEXT)

\* as feedback_privacy_confirmation, but downloading before the answer is
\* logged
feedback_privacy_confirmation_unlogged(c, x, data) ==
    LET c1 == Answer(c, x)
        answer == IF data = "privacy_confirm_yes" THEN "yes" ELSE "no"
        c2 == handle_video_confirmation(c1, x, data, "applicant", PRIVACY_TEXT)
    IN  IF Raised(c1) THEN c1
        ELSE IF data = "privacy_confirm_yes"
        THEN log_answered_confirm_privacy(c2, x, answer)
        ELSE IF data = "privacy_confirm_no"
             THEN ask_why_hesitant_or_reject_to_shoot_video(
                      log_answered_confirm_privacy(c1, x, answer), x)
             ELSE log_answered_confirm_privacy(c1, x, answer)

\* feedback_privacy_confirmation
feedback_privacy_confirmation(c, x, data) ==
    LET c1 == Answer(c, x)
        answer == IF data = "privacy_confirm_yes" THEN "yes" ELSE "no"
        c2 == log_answered_confirm_privacy(c1, x, answer)
    IN  IF Raised(c1) THEN c1
        ELSE IF data = "privacy_confirm_yes"
        THEN handle_video_confirmation(c2, x, data, "applicant", PRIVACY_TEXT)
        ELSE IF data = "privacy_confirm_no"
             THEN ask_why_hesitant_or_reject_to_shoot_video(c2, x)
             ELSE c2

----------------------------------------------------------------------------
(* The state, and the updates of one conversation *)

NoCall == [op |-> "none", user |-> None]

NoKeyboards == [p \in KeyboardPrompts |-> 0]

\* every chat with an empty session and no message
NoSessions == [u \in Users |-> [ud |-> EmptyDict, kb |-> NoKeyboards]]

\* no file written yet, an empty session, nothing sent
Init ==
    /\ actions_file = NoFile
    /\ users_file = NoFile
    /\ user_data = EmptyDict
    /\ keyboards = NoKeyboards
    /\ downloads = <<>>
    /\ trace = <<>>
    /\ inputs = <<>>
    /\ call = NoCall
    /\ result = None
    /\ recorded = <<>>
    /\ sessions = NoSessions
    /\ runs = <<>>

\* the context a handler run starts from
Ctx ==
    [af |-> actions_file, uf |-> users_file, ud |-> user_data, kb |-> keyboards,
     dl |-> downloads, tr |-> <<>>]

\* the state a handler run that handled update leaves
Commit(c, update) ==
    /\ actions_file' = c.af
    /\ users_file' = c.uf
    /\ user_data' = c.ud
    /\ keyboards' = c.kb
    /\ downloads' = c.dl
    /\ trace' = c.tr
    /\ inputs' = Append(inputs, update.op)
    /\ call' = update
    /\ UNCHANGED <<result, recorded, sessions, runs>>

\* the user of the conversation
Applicant == CHOOSE u \in Users : \A w \in Users : u <= w

ApplicantProfile == Collected(Some(Applicant), "ann", "Ann", "Lee", "en")

\* a manager_video directory holding one video of 5 MB
GoodDir == [exists |-> TRUE, videos |-> <<5 * 1024 * 1024>>]

\* the run in which every file and platform operation succeeds; the clock
\* advances one second per update
HappyRuns ==
    {[user |-> Some(Applicant), profile |-> ApplicantProfile,
      now |-> [s |-> Len(inputs), us |-> 0], io |-> StorageOk, manager_dir |-> GoodDir,
      send_video_ok |-> TRUE, download_ok |-> TRUE, edit_ok |-> TRUE,
      ack_ok |-> TRUE, get_file_ok |-> TRUE, send_fails |-> {}]}

\* the video messages the applicant sends; every message has its own file_id
VideoNames == {"vid_ok", "vid_long", "vid_big", "vid_doc"}

VideoMessage(name) ==
    LET file_id == Len(inputs) + 1
    IN  CASE name = "vid_ok" ->
               [kind |-> "video", file_id |-> file_id, duration |-> Some(40),
                file_size |-> Some(5 * 1024 * 1024)]
          [] name = "vid_long" ->
               [kind |-> "video_note", file_id |-> file_id,
                duration |-> Some(MAX_DURATION_SECS + 1), file_size |-> None]
          [] name = "vid_big" ->
               [kind |-> "document_video", file_id |-> file_id, duration |-> None,
                file_size |-> Some(50 * 1024 * 1024 + 1)]
          [] name = "vid_doc" ->
               [kind |-> "document_video", file_id |-> file_id, duration |-> None,
                file_size |-> None]

\* an update: the command or callback_data or the name of the video sent,
\* its user, and its video message if it has one
Update(op, x, message) == [op |-> op, user |-> x.user, message |-> message]

\* a callback query only comes from a button of a keyboard that is still
\* attached to a message of the chat
Pressed(prompt) == keyboards[prompt] > 0

\* CommandHandler("start", start)
StartCommand(x) ==
    /\ Len(inputs) < MaxRuns
    /\ Commit(start(Ctx, x), Update("start", x, None))

\* pattern ^(video_yes|video_no|video_not_seen)$
WatchedCallback(x, data) ==
    /\ Len(inputs) < MaxRuns
    /\ Pressed(ASK_WATCHED)
    /\ Commit(feedback_about_watched_video(Ctx, x, data), Update(data, x, None))

\* pattern ^(yes|maybe|no)$
ShootCallback(x, data) ==
    /\ Len(inputs) < MaxRuns
    /\ Pressed(QUESTION_TEXT)
    /\ Commit(feedback_to_shoot_video(Ctx, x, data), Update(data, x, None))

\* pattern ^(reason_no_company|...|reason_no_other)$
ReasonCallback(x, data) ==
    /\ Len(inputs) < MaxRuns
    /\ Pressed(ASK_WHY)
    /\ Commit(feedback_why_hesitant_or_reject_to_shoot_video(Ctx, x, data),
              Update(data, x, None))

\* MessageHandler(VIDEO | VIDEO_NOTE | Document.VIDEO): handle_video with
\* ask_to_confirm_sending
VideoReceived(x, name) ==
    /\ Len(inputs) < MaxRuns
    /\ Commit(handle_video(Ctx, x, VideoMessage(name)),
              Update(name, x, Some(VideoMessage(name))))

\* pattern ^confirm_yes_privacy$
ConfirmYesCallback(x) ==
    /\ Len(inputs) < MaxRuns
    /\ Pressed(CONFIRM_TEXT)
    /\ Commit(privacy_policy_confirmation(Ctx, x), Update("confirm_yes_privacy", x, None))

\* pattern ^confirm_no$
ConfirmNoCallback(x) ==
    /\ Len(inputs) < MaxRuns
    /\ Pressed(CONFIRM_TEXT)
    /\ Commit(feedback_to_confirm_sending(Ctx, x, "confirm_no"),
              Update("confirm_no", x, None))

\* pattern ^(privacy_confirm_yes|privacy_confirm_no)$
PrivacyCallback(x, data) ==
    /\ Len(inputs) < MaxRuns
    /\ Pressed(PRIVACY_TEXT)
    /\ Commit(feedback_privacy_confirmation(Ctx, x, data), Update(data, x, None))

Next ==
    \/ \E x \in HappyRuns : StartCommand(x)
    \/ \E x \in HappyRuns, data \in {"video_yes", "video_no", "video_not_seen"} :
           WatchedCallback(x, data)
    \/ \E x \in HappyRuns, data \in {"yes", "maybe", "no"} : ShootCallback(x, data)
    \/ \E x \in HappyRuns,
          data \in {"reason_no_company", "reason_no_awkward", "reason_no_dont_know",
                    "reason_no_privacy", "reason_no_other"} : ReasonCallback(x, data)
    \/ \E x \in HappyRuns, name \in VideoNames : VideoReceived(x, name)
    \/ \E x \in HappyRuns : ConfirmYesCallback(x)
    \/ \E x \in HappyRuns : ConfirmNoCallback(x)
    \/ \E x \in HappyRuns, data \in {"privacy_confirm_yes", "privacy_confirm_no"} :
           PrivacyCallback(x, data)

\* one conversation in which every file and platform operation succeeds
Spec == Init /\ [][Next]_vars

----------------------------------------------------------------------------
(* The action log called directly *)

\* the parameters of a call made outside a conversation
Direct(effective_user, now) ==
    [user |-> effective_user, profile |-> ApplicantProfile, now |-> now, io |-> StorageOk,
     manager_dir |-> GoodDir, send_video_ok |-> TRUE, download_ok |-> TRUE,
     edit_ok |-> TRUE, ack_ok |-> TRUE, get_file_ok |-> TRUE, send_fails |-> {}]

\* the state a call of a log_* function leaves: the file it wrote, and
\* the event it was asked to record if the update has a user
Logged(c, effective_user, action_type, additional_data, now) ==
    /\ Len(ReadExisting(actions_file)) < MaxLogLen
    /\ actions_file' = c.af
    /\ call' = [op |-> "log", user |-> effective_user]
    /\ result' = None
    /\ recorded' = IF effective_user = None THEN recorded
                   ELSE Append(recorded, ActionEntry(action_type, effective_user[1],
                                                     additional_data, now))
    /\ UNCHANGED <<users_file, user_data, keyboards, downloads, trace, inputs,
                   sessions, runs>>

\* log_start(update, context)
LogStartCall(effective_user, now) ==
    Logged(log_start(Ctx, Direct(effective_user, now)), effective_user,
           START, EmptyDict, now)

\* log_answered_about_watched_video(update, context, answer)
LogAnsweredCall(effective_user, now, answer) ==
    Logged(log_answered_about_watched_video(Ctx, Direct(effective_user, now), answer),
           effective_user, ANSWERED_ABOUT_WATCHED_VIDEO, Answered(answer), now)

\* get_user_actions(user_id)
GetUserActionsCall(user_id) ==
    /\ result' = get_user_actions(actions_file, user_id)
    /\ call' = [op |-> "get_user_actions", user |-> Some(user_id)]
    /\ UNCHANGED <<actions_file, users_file, user_data, keyboards, downloads, trace,
                   inputs, recorded, sessions, runs>>

\* as get_user_action_summary, but saving the actions it selected
GetUserActionSummaryCallSaving(user_id) ==
    /\ result' = get_user_action_summary(actions_file, user_id)
    /\ actions_file' = WriteList(get_user_actions(actions_file, user_id))
    /\ call' = [op |-> "get_user_action_summary", user |-> Some(user_id)]
    /\ UNCHANGED <<users_file, user_data, keyboards, downloads, trace, inputs, recorded,
                   sessions, runs>>

\* get_user_action_summary(user_id)
GetUserActionSummaryCall(user_id) ==
    /\ result' = get_user_action_summary(actions_file, user_id)
    /\ call' = [op |-> "get_user_action_summary", user |-> Some(user_id)]
    /\ UNCHANGED <<actions_file, users_file, user_data, keyboards, downloads, trace,
                   inputs, recorded, sessions, runs>>

\* the log_* function that records action_type, called with "x" where it
\* takes an answer, a reason or a video_info
LogFunction(action_type, c, x) ==
    CASE action_type = START -> log_start(c, x)
      [] action_type = GOT_VIDEO -> log_got_video(c, x)
      [] action_type = ASKED_ABOUT_WATCHED_VIDEO -> log_asked_about_watched_video(c, x)
      [] action_type = ANSWERED_ABOUT_WATCHED_VIDEO ->
             log_answered_about_watched_video(c, x, "x")
      [] action_type = ASKED_TO_SHOOT_VIDEO -> log_asked_to_shoot_video(c, x)
      [] action_type = ANSWERED_TO_SHOOT_VIDEO -> log_answered_to_shoot_video(c, x, "x")
      [] action_type = GOT_INSTRUCTIONS -> log_got_instructions(c, x)
      [] action_type = SENT_VIDEO -> log_sent_video(c, x, [kind |-> "x"])
      [] action_type = ASKED_TO_CONFIRM_SENDING -> log_asked_to_confirm_sending(c, x)
      [] action_type = ANSWERED_CONFIRM_SENDING -> log_answered_confirm_sending(c, x, "x")
      [] action_type = ASKED_TO_CONFIRM_PRIVACY -> log_asked_to_confirm_privacy(c, x)
      [] action_type = ANSWERED_CONFIRM_PRIVACY -> log_answered_confirm_privacy(c, x, "x")
      [] action_type = ASKED_WHY_HESITANT_OR_REJECT ->
             log_asked_why_hesitant_or_reject(c, x)
      [] action_type = ANSWERED_WHY_HESITANT_OR_REJECT ->
             log_answered_why_hesitant_or_reject(c, x, "x")
      [] action_type = START_TRIGGERED_AGAIN -> log_start_triggered_again(c, x)

\* any of the log_* functions called for an update that has no user (the
\* clock is not read then)
LogNoUserCall(action_type) ==
    LET now == CHOOSE t \in Instants : TRUE
    IN  Logged(LogFunction(action_type, Ctx, Direct(None, now)), None,
               action_type, EmptyDict, now)

NextLog ==
    \/ \E u \in Users, now \in Instants : LogStartCall(Some(u), now)
    \/ \E u \in Users, now \in Instants : LogAnsweredCall(Some(u), now, "no")
    \/ \E action_type \in ActionType : LogNoUserCall(action_type)
    \/ \E u \in Users : GetUserActionsCall(u)
    \/ \E u \in Users : GetUserActionSummaryCall(u)

\* calls of the log functions for several users, at any instants
SpecLog == Init /\ [][NextLog]_vars

----------------------------------------------------------------------------
(* The user registry called directly *)

\* calls of collect_user_data made in one run of the model
MaxCalls == 4

\* the two sets of names a user is seen with
SeenProfiles ==
    {Collected(ou, "ann", "Ann", "Lee", "en") : ou \in OptUsers}
        \cup {Collected(ou, "bob", "Bob", "Ray", "ru") : ou \in OptUsers}

\* collect_user_data(user_id, username, first_name, last_name, language_code)
CollectUserDataCall(p) ==
    /\ Len(recorded) < MaxCalls
    /\ users_file' = append_user_event(users_file, p, StorageOk)
    /\ call' = [op |-> "collect_user_data", user |-> p.user_id]
    /\ recorded' = Append(recorded, p)
    /\ UNCHANGED <<actions_file, user_data, keyboards, downloads, trace, inputs, result,
                   sessions, runs>>

NextReg == \E p \in SeenProfiles : CollectUserDataCall(p)

SpecReg == Init /\ [][NextReg]_vars

----------------------------------------------------------------------------
(* The validator and handle_video on one message *)

MB == 1024 * 1024

\* sizes: not reported, 0, 5 MB, 10 MB, around 50 MB, 60 MB
Sizes ==
    {None, Some(0), Some(5 * MB), Some(10 * MB), Some(60 * MB)}
        \cup {Some(50 * MB + d) : d \in -Margin..Margin}

\* durations: 0, 30, 40, around 60 and around MAX_DURATION_SECS, 95
Durations ==
    {0, 30, 40, 95} \cup {60 + d : d \in -Margin..Margin}
        \cup {MAX_DURATION_SECS + d : d \in -Margin..Margin}

MaxDurations == {60, MAX_DURATION_SECS}

InitValidate ==
    /\ actions_file = NoFile
    /\ users_file = NoFile
    /\ user_data = EmptyDict
    /\ keyboards = NoKeyboards
    /\ downloads = <<>>
    /\ trace = <<>>
    /\ inputs = <<>>
    /\ \E fs \in Sizes, d \in Durations, md \in MaxDurations :
           call = [op |-> "input", file_size |-> fs, duration |-> d, max_duration |-> md]
    /\ result = None
    /\ recorded = <<>>
    /\ sessions = NoSessions
    /\ runs = <<>>

\* _validate_incoming_video(file_size, duration, max_duration)
ValidateCall ==
    /\ call.op = "input"
    /\ result' = validate_incoming_video(call.file_size, call.duration, call.max_duration)
    /\ call' = [call EXCEPT !.op = "validate"]
    /\ UNCHANGED <<actions_file, users_file, user_data, keyboards, downloads, trace,
                   inputs, recorded, sessions, runs>>

NextValidate == ValidateCall

SpecValidate == InitValidate /\ [][NextValidate]_vars

\* the video messages of every kind, with and without duration and size
Messages ==
    {[kind |-> k, file_id |-> 1, duration |-> d, file_size |-> fs] :
        k \in {"video", "video_note"},
        d \in {None} \cup {Some(n) : n \in Durations}, fs \in Sizes}
    \cup {[kind |-> "document_video", file_id |-> 1, duration |-> None,
           file_size |-> fs] : fs \in Sizes}

\* a session that holds no video, or an unconfirmed video, or a video
\* whose download failed
InitVideo ==
    /\ actions_file = NoFile
    /\ users_file = NoFile
    /\ user_data \in {EmptyDict,
                      [pending_file_id |-> 0, pending_kind |-> "video",
                       pending_duration |-> Some(40)],
                      [pending_file_id |-> 0, pending_kind |-> "video_note",
                       pending_duration |-> Some(30),
                       video_confirmation_processed |-> TRUE]}
    /\ keyboards = NoKeyboards
    /\ downloads = <<>>
    /\ trace = <<>>
    /\ inputs = <<>>
    /\ \E m \in Messages : call = [op |-> "input", user |-> Some(Applicant), message |-> m]
    /\ result = None
    /\ recorded = <<>>
    /\ sessions = NoSessions
    /\ runs = <<>>

\* handle_video on the message; the call notes the session it found
HandleVideoCall(x) ==
    /\ call.op = "input"
    /\ inputs = <<>>
    /\ Commit(handle_video(Ctx, x, call.message),
              [op |-> "handle_video", user |-> x.user, message |-> call.message,
               before |-> user_data])

NextVideo == \E x \in HappyRuns : HandleVideoCall(x)

SpecVideo == InitVideo /\ [][NextVideo]_vars

----------------------------------------------------------------------------
(* The action log on a store that may be corrupt or failing *)

\* the files user_actions.json may be found as when the bot starts
FoundFiles == {NoFile, Unparseable, NotAList}

InitStore ==
    /\ actions_file \in FoundFiles
    /\ users_file = NoFile
    /\ user_data = EmptyDict
    /\ keyboards = NoKeyboards
    /\ downloads = <<>>
    /\ trace = <<>>
    /\ inputs = <<>>
    /\ call = NoCall
    /\ result = None
    /\ recorded = <<>>
    /\ sessions = NoSessions
    /\ runs = <<>>

\* log_answered_to_shoot_video(update, context, answer) while the file
\* operations do io; the call notes the file it found
LogUnderCall(effective_user, now, answer, io) ==
    /\ Len(recorded) < MaxLogLen
    /\ actions_file' =
           log_answered_to_shoot_video(
               Ctx, [Direct(effective_user, now) EXCEPT !.io = io], answer).af
    /\ call' = [op |-> "log_under", user |-> effective_user, io |-> io,
                before |-> actions_file]
    /\ recorded' = Append(recorded, ActionEntry(ANSWERED_TO_SHOOT_VIDEO,
                                                 effective_user[1], Answered(answer), now))
    /\ UNCHANGED <<users_file, user_data, keyboards, downloads, trace, inputs, result,
                   sessions, runs>>

NextStore ==
    \/ \E u \in Users, answer \in {"yes", "no"}, io \in StorageOutcomes :
           LogUnderCall(Some(u), [s |-> Len(recorded), us |-> 0], answer, io)
    \/ \E u \in Users : GetUserActionsCall(u)

SpecStore == InitStore /\ [][NextStore]_vars

----------------------------------------------------------------------------
(* The handler of an update *)

WatchedData == {"video_yes", "video_no", "video_not_seen"}

ShootData == {"yes", "maybe", "no"}

ReasonData ==
    {"reason_no_company", "reason_no_awkward", "reason_no_dont_know",
     "reason_no_privacy", "reason_no_other"}

PrivacyData == {"privacy_confirm_yes", "privacy_confirm_no"}

\* re.match of the pattern ^(a|b|...)$ on callback_data: $ matches at the
\* end of the string and also before a newline that ends the string
Matches(alternatives, data) ==
    \E a \in alternatives : data = a \/ data = a \o "\n"

\* the handler create_applicant_application registers for the update op
\* (a command, a callback_data or the name of a video message), run from
\* c; an update that no handler takes is dropped
Handle(c, x, op, message) ==
    CASE op = "start" -> start(c, x)
      [] op \in VideoNames -> handle_video(c, x, message[1])
      [] Matches(WatchedData, op) -> feedback_about_watched_video(c, x, op)
      [] Matches(ShootData, op) -> feedback_to_shoot_video(c, x, op)
      [] Matches(ReasonData, op) ->
             feedback_why_hesitant_or_reject_to_shoot_video(c, x, op)
      [] Matches({"confirm_yes_privacy"}, op) -> privacy_policy_confirmation(c, x)
      [] Matches({"confirm_no"}, op) -> feedback_to_confirm_sending(c, x, op)
      [] Matches(PrivacyData, op) -> feedback_privacy_confirmation(c, x, op)
      [] OTHER -> c

----------------------------------------------------------------------------
(* One conversation in which platform operations fail *)

\* handler runs of a session in which operations fail
MaxFaultRuns == 4

\* a manager_video directory that is missing, and one whose video is over
\* 50 MB
NoDir == [exists |-> FALSE, videos |-> <<>>]

BigDir == [exists |-> TRUE, videos |-> <<50 * 1024 * 1024 + 1>>]

\* what can fail in one run: the sending of the manager video, the
\* download, the editing of a message, the answer to a callback query,
\* get_file, the first, second or third text message the run tries to
\* send, and the validation of the manager_video directory
Failures ==
    {"send_video", "download", "edit", "answer", "get_file", "send_1", "send_2",
     "send_3", "no_dir", "big_dir"}

\* the run of the applicant's next update in which the operations of
\* failed fail and all others succeed
RunWith(failed) ==
    [user |-> Some(Applicant), profile |-> ApplicantProfile,
     now |-> [s |-> Len(inputs), us |-> 0], io |-> StorageOk,
     manager_dir |-> IF "no_dir" \in failed THEN NoDir
                     ELSE IF "big_dir" \in failed THEN BigDir ELSE GoodDir,
     send_video_ok |-> "send_video" \notin failed,
     download_ok |-> "download" \notin failed,
     edit_ok |-> "edit" \notin failed,
     ack_ok |-> "answer" \notin failed,
     get_file_ok |-> "get_file" \notin failed,
     send_fails |-> {n \in {1, 2, 3} :
                        \/ n = 1 /\ "send_1" \in failed
                        \/ n = 2 /\ "send_2" \in failed
                        \/ n = 3 /\ "send_3" \in failed}]

\* the runs in which any of the operations of ops fail
RunsFailing(ops) == {RunWith(failed) : failed \in SUBSET ops}

\* every handler with every combination of failures of the operations it
\* performs
NextFaults ==
    /\ Len(inputs) < MaxFaultRuns
    /\ \/ \E x \in RunsFailing({"send_1", "send_2", "send_3", "send_video",
                                 "no_dir", "big_dir"}) : StartCommand(x)
       \/ \E x \in RunsFailing({"answer", "edit", "send_1", "send_2"}) :
              WatchedCallback(x, "video_yes")
       \/ \E x \in RunsFailing({"answer", "edit", "send_1"}), data \in {"yes", "no"} :
              ShootCallback(x, data)
       \/ \E x \in RunsFailing({"answer", "edit", "send_1"}) :
              ReasonCallback(x, "reason_no_other")
       \/ \E x \in RunsFailing({"send_1"}), name \in {"vid_ok", "vid_long"} :
              VideoReceived(x, name)
       \/ \E x \in RunsFailing({"send_1"}) : ConfirmYesCallback(x)
       \/ \E x \in RunsFailing({"answer", "send_1"}) : ConfirmNoCallback(x)
       \/ \E x \in RunsFailing({"answer", "get_file", "download", "edit", "send_1",
                                 "send_2"}),
             data \in {"privacy_confirm_yes", "privacy_confirm_no"} :
              PrivacyCallback(x, data)

SpecFaults == Init /\ [][NextFaults]_vars

----------------------------------------------------------------------------
(* One conversation on a failing store *)

\* handler runs of a session on a failing store
MaxStorageRuns == 4

\* the runs in which the platform works and the file operations do io
StorageRuns == {[RunWith({}) EXCEPT !.io = io] : io \in StorageOutcomes}

NextStorage ==
    /\ Len(inputs) < MaxStorageRuns
    /\ \/ \E x \in StorageRuns : StartCommand(x)
       \/ \E x \in StorageRuns : WatchedCallback(x, "video_no")
       \/ \E x \in StorageRuns, data \in {"yes", "maybe"} : ShootCallback(x, data)
       \/ \E x \in StorageRuns : ReasonCallback(x, "reason_no_privacy")
       \/ \E x \in StorageRuns, name \in {"vid_ok", "vid_big"} : VideoReceived(x, name)
       \/ \E x \in StorageRuns : ConfirmYesCallback(x)
       \/ \E x \in StorageRuns : ConfirmNoCallback(x)
       \/ \E x \in StorageRuns, data \in PrivacyData : PrivacyCallback(x, data)

SpecStorage == Init /\ [][NextStorage]_vars

----------------------------------------------------------------------------
(* Conversations whose start finds any manager_video directory *)

\* handler runs of a session in which the directory varies
MaxStartRuns == 4

\* a manager_video directory without a video file, and one with two
EmptyDir == [exists |-> TRUE, videos |-> <<>>]

TwoDir == [exists |-> TRUE, videos |-> <<5 * 1024 * 1024, 5 * 1024 * 1024>>]

ManagerDirs == {NoDir, EmptyDir, TwoDir, BigDir, GoodDir}

\* start on the directory dir, the manager video being delivered or not;
\* every text message is delivered
StartOn(dir, send_video_ok) ==
    LET x == [RunWith({}) EXCEPT !.manager_dir = dir, !.send_video_ok = send_video_ok]
    IN  Commit(start(Ctx, x),
               [op |-> "start", user |-> x.user, message |-> None,
                manager_dir |-> dir, send_video_ok |-> send_video_ok])

NextStarts ==
    /\ Len(inputs) < MaxStartRuns
    /\ \/ \E dir \in ManagerDirs, send_video_ok \in BOOLEAN : StartOn(dir, send_video_ok)
       \/ \E data \in WatchedData : WatchedCallback(RunWith({}), data)
       \/ \E name \in {"vid_ok"} : VideoReceived(RunWith({}), name)

SpecStarts == Init /\ [][NextStarts]_vars

----------------------------------------------------------------------------
(* Conversations with callback data that no prompt carries *)

\* handler runs of a session that receives such callback data
MaxStrayRuns == 3

\* callback data outside the buttons of every prompt: the confirm_yes of
\* handle_video_confirmation, for which no handler is registered, an
\* unknown token, and tokens of the prompts followed by a newline
StrayData == {"confirm_yes", "skip", "yes\n", "video_yes\n", "confirm_no\n"}

\* a callback query with such data; its button is on none of the prompts
\* of the conversation, so that no edit removes a keyboard of theirs
StrayCallback(x, data) ==
    /\ Len(inputs) < MaxRuns
    /\ Commit(Handle(Ctx, x, data, None), Update(data, x, None))

NextStray ==
    /\ Len(inputs) < MaxStrayRuns
    /\ \/ \E x \in HappyRuns : StartCommand(x)
       \/ \E x \in HappyRuns, data \in WatchedData : WatchedCallback(x, data)
       \/ \E x \in HappyRuns, name \in {"vid_ok", "vid_long"} : VideoReceived(x, name)
       \/ \E x \in HappyRuns : ConfirmYesCallback(x)
       \/ \E data \in StrayData : StrayCallback(RunWith({"edit"}), data)

SpecStray == Init /\ [][NextStray]_vars

----------------------------------------------------------------------------
(* Several chats served by one application *)

\* The application is built without concurrent_updates and every handler
\* is registered with the default block=True, so the dispatcher takes the
\* updates from its queue one at a time and awaits the handler of one
\* before it takes the next.  A handler run is followed statement by
\* statement: every awaited operation is a step, and a log_* call is the
\* step that reads the file followed by the step that writes it.

\* updates received by the application
MaxUpdates == 3

\* the run of the update number id, sent by user u, with every operation
\* succeeding; the clock advances one second per update
SessionRun(u, id) ==
    [RunWith({}) EXCEPT !.user = Some(u),
                        !.profile = Collected(Some(u), "ann", "Ann", "Lee", "en"),
                        !.now = [s |-> id, us |-> 0]]

\* the context of a handler call in the chat of user u
SessionCtx(u) ==
    [af |-> actions_file, uf |-> users_file, ud |-> sessions[u].ud,
     kb |-> sessions[u].kb, dl |-> downloads, tr |-> <<>>]

\* the steps of a run that does tr and appends entries to the log: the
\* read and the write of every log_* call, and every awaited operation
RECURSIVE StepsOf(_, _)
StepsOf(tr, entries) ==
    IF tr = <<>> THEN <<>>
    ELSE IF tr[1].e = "log"
         THEN <<[e |-> "read", entry |-> <<>>], [e |-> "write", entry |-> <<entries[1]>>]>>
                  \o StepsOf(Tail(tr), Tail(entries))
         ELSE <<[e |-> tr[1].e, entry |-> <<>>]>> \o StepsOf(Tail(tr), entries)

\* as Schedulable, but with every handler run free to go on at any time
SchedulableAny(queue) == DOMAIN queue

\* as Schedulable, but with the newest update handled first
SchedulableLast(queue) == IF queue = <<>> THEN {} ELSE {Len(queue)}

\* the runs of the queue that may take a step: the oldest one
Schedulable(queue) == IF queue = <<>> THEN {} ELSE {1}

\* the keyboard a callback_data belongs to
KeyboardOf(op) ==
    CASE op \in WatchedData -> ASK_WATCHED
      [] op \in ShootData -> QUESTION_TEXT
      [] op \in ReasonData -> ASK_WHY
      [] op \in {"confirm_yes_privacy", "confirm_no"} -> CONFIRM_TEXT
      [] op \in PrivacyData -> PRIVACY_TEXT

\* user u sends the update op: it is put on the queue; behind holds the
\* users whose updates were on the queue then
Arrive(u, op) ==
    /\ Len(inputs) < MaxUpdates
    /\ op \notin {"start"} \cup VideoNames => sessions[u].kb[KeyboardOf(op)] > 0
    /\ inputs' = Append(inputs, op)
    /\ runs' = Append(runs,
                      [id |-> Len(inputs) + 1, user |-> u, op |-> op,
                       message |-> IF op \in VideoNames THEN Some(VideoMessage(op))
                                   ELSE None,
                       started |-> FALSE,
                       behind |-> {runs[j].user : j \in DOMAIN runs},
                       steps |-> <<>>, buf |-> <<>>,
                       post |-> SessionCtx(u)])
    /\ UNCHANGED <<actions_file, users_file, user_data, keyboards, downloads, trace,
                   call, result, recorded, sessions>>

\* the dispatcher calls the handler of the update i of the queue
Begin(i) ==
    LET r == runs[i]
        c == Handle(SessionCtx(r.user), SessionRun(r.user, r.id), r.op, r.message)
        entries == SubSeq(c.af.data, Len(ReadExisting(actions_file)) + 1, Len(c.af.data))
    IN  /\ i \in Schedulable(runs)
        /\ ~r.started
        /\ users_file' = c.uf
        /\ runs' = [runs EXCEPT ![i] = [r EXCEPT !.started = TRUE,
                                                 !.steps = StepsOf(c.tr, entries),
                                                 !.post = c]]
        /\ UNCHANGED <<actions_file, user_data, keyboards, downloads, trace, inputs,
                       call, result, recorded, sessions>>

\* the handler run i takes its next step
Step(i) ==
    LET r == runs[i]
        step == r.steps[1]
    IN  /\ i \in Schedulable(runs)
        /\ r.started
        /\ r.steps /= <<>>
        /\ runs' = [runs EXCEPT ![i] =
                        [r EXCEPT !.steps = Tail(@),
                                  !.buf = IF step.e = "read"
                                          THEN ReadExisting(actions_file) ELSE @]]
        /\ actions_file' = IF step.e = "write"
                           THEN WriteList(Append(r.buf, step.entry[1]))
                           ELSE actions_file
        /\ recorded' = IF step.e = "write" THEN Append(recorded, step.entry[1])
                       ELSE recorded
        /\ downloads' = IF step.e = "download"
                        THEN Append(downloads, r.post.dl[Len(r.post.dl)])
                        ELSE downloads
        /\ UNCHANGED <<users_file, user_data, keyboards, trace, inputs, call, result,
                       sessions>>

\* the handler run i returns: the session holds what the run made of it
Finish(i) ==
    LET r == runs[i]
    IN  /\ i \in Schedulable(runs)
        /\ r.started
        /\ r.steps = <<>>
        /\ sessions' = [sessions EXCEPT ![r.user] = [ud |-> r.post.ud, kb |-> r.post.kb]]
        /\ runs' = SubSeq(runs, 1, i - 1) \o SubSeq(runs, i + 1, Len(runs))
        /\ call' = [op |-> r.op, user |-> Some(r.user), id |-> r.id, behind |-> r.behind]
        /\ trace' = r.post.tr
        /\ UNCHANGED <<actions_file, users_file, user_data, keyboards, downloads,
                       inputs, result, recorded>>

NextSessions ==
    \/ \E u \in Users, op \in {"start", "vid_ok", "confirm_no"} : Arrive(u, op)
    \/ \E i \in DOMAIN runs : Begin(i)
    \/ \E i \in DOMAIN runs : Step(i)
    \/ \E i \in DOMAIN runs : Finish(i)

SpecSessions == Init /\ [][NextSessions]_vars

----------------------------------------------------------------------------
(* The confirmation of a staged video, with failing downloads *)

\* handler runs that follow the first privacy prompt
MaxConfirmRuns == 5

\* the session in which a valid video was received and confirm_yes_privacy
\* pressed: the video is staged under file_id 1 and the confirm and the
\* privacy prompt are on screen
Staged ==
    LET fresh == [af |-> NoFile, uf |-> NoFile, ud |-> EmptyDict, kb |-> NoKeyboards,
                  dl |-> <<>>, tr |-> <<>>]
        first == [RunWith({}) EXCEPT !.now = [s |-> 0, us |-> 0]]
        second == [RunWith({}) EXCEPT !.now = [s |-> 1, us |-> 0]]
        video == [kind |-> "video", file_id |-> 1, duration |-> Some(40),
                  file_size |-> Some(5 * 1024 * 1024)]
        received == Handle(fresh, first, "vid_ok", Some(video))
    IN  Handle([received EXCEPT !.tr = <<>>], second, "confirm_yes_privacy", None)

InitConfirm ==
    /\ inputs = <<"vid_ok", "confirm_yes_privacy">>
    /\ actions_file = Staged.af
    /\ users_file = Staged.uf
    /\ user_data = Staged.ud
    /\ keyboards = Staged.kb
    /\ downloads = Staged.dl
    /\ trace = Staged.tr
    /\ call = [op |-> "confirm_yes_privacy", user |-> Some(Applicant), message |-> None,
               failed |-> {}]
    /\ result = None
    /\ recorded = <<>>
    /\ sessions = NoSessions
    /\ runs = <<>>

\* the applicant's update op, handled while the operations of failed fail;
\* a button is pressed only on a prompt that is on screen
ConfirmRun(op, failed) ==
    LET x == RunWith(failed)
        message == IF op \in VideoNames THEN Some(VideoMessage(op)) ELSE None
    IN  /\ op \notin VideoNames => Pressed(KeyboardOf(op))
        /\ Commit(Handle(Ctx, x, op, message),
                  [op |-> op, user |-> x.user, message |-> message, failed |-> failed])

NextConfirm ==
    /\ Len(inputs) < 2 + MaxConfirmRuns
    /\ \/ \E name \in {"vid_ok", "vid_long"} : ConfirmRun(name, {})
       \/ \E op \in {"confirm_yes_privacy", "confirm_no", "privacy_confirm_no"} :
              ConfirmRun(op, {})
       \/ \E failed \in SUBSET {"get_file", "download", "edit"} :
              ConfirmRun("privacy_confirm_yes", failed)

SpecConfirm == InitConfirm /\ [][NextConfirm]_vars

----------------------------------------------------------------------------
(* Properties of one conversation *)

\* the events of the log, and the applicant's
Events == ReadExisting(actions_file)

ApplicantEvents == get_user_actions(actions_file, Applicant)

TypesOf(events) == [i \in DOMAIN events |-> events[i].action_type]

CountType(events, action_type) ==
    Cardinality({i \in DOMAIN events : events[i].action_type = action_type})

Sent(tr, text, buttons) == \E i \in DOMAIN tr : tr[i] = Eff("send", text, buttons)

PendingKeys == {"pending_file_id", "pending_kind", "pending_duration"}

\* C1: start handled twice in a fresh session leaves, among the start
\* events of the user's log, one start followed by one
\* start_triggered_again.
C1_StartThenStartTriggeredAgain ==
    inputs = <<"start", "start">> =>
        TypesOf(SelectSeq(ApplicantEvents,
                          LAMBDA e : e.action_type \in {START, START_TRIGGERED_AGAIN}))
            = <<START, START_TRIGGERED_AGAIN>>

EndToEnd ==
    <<"start", "video_yes", "yes", "vid_ok", "confirm_yes_privacy",
      "privacy_confirm_yes">>

\* C2: after start, video_yes, yes, a valid video of 40 s and 5 MB,
\* confirm_yes_privacy, privacy_confirm_yes in a fresh session the log
\* holds exactly one sent_video and exactly one answered_confirm_sending,
\* whose answer is "privacy_confirm_yes"; exactly one file was downloaded,
\* under applicant_video, and it is the video sent; the saved confirmation
\* was sent; and no pending_* key is left in the session.
C2_EndToEnd ==
    inputs = EndToEnd =>
        /\ CountType(ApplicantEvents, SENT_VIDEO) = 1
        /\ CountType(ApplicantEvents, ANSWERED_CONFIRM_SENDING) = 1
        /\ \A i \in DOMAIN ApplicantEvents :
               ApplicantEvents[i].action_type = ANSWERED_CONFIRM_SENDING =>
                   ApplicantEvents[i].extra = Answered("privacy_confirm_yes")
        /\ Len(downloads) = 1
        /\ downloads[1].dir = "applicant_video"
        /\ downloads[1].file_id = 4
        /\ ~downloads[1].note
        /\ Sent(trace, VIDEO_SAVED_TEXT, <<>>)
        /\ PendingKeys \cap DOMAIN user_data = {}

C2_Witness ==
    /\ inputs = EndToEnd
    /\ Len(downloads) = 1
    /\ CountType(ApplicantEvents, SENT_VIDEO) = 1

\* C3: the run of start sends the ASK_WATCHED prompt with exactly the
\* buttons video_yes, video_no, video_not_seen, and no other buttons; the
\* run of video_no appends to the log exactly an
\* answered_about_watched_video event with answer "no" and then an
\* asked_to_shoot_video event, and ends by sending the ASK_SHOOT prompt;
\* after start, video_no in a fresh session the log holds one
\* answered_about_watched_video event.
C3_WatchedNoThenAskShoot ==
    [][/\ inputs' = Append(inputs, "start") =>
            /\ Sent(trace', ASK_WATCHED, <<"video_yes", "video_no", "video_not_seen">>)
            /\ \A i \in DOMAIN trace' :
                   trace'[i].b /= <<>> => trace'[i].a = ASK_WATCHED /\ i = Len(trace')
            /\ Sent(trace', INTRO_TEXT, <<>>)
       /\ inputs' = Append(inputs, "video_no") =>
            LET old == Events
                new == ReadExisting(actions_file')
            IN  /\ Len(new) = Len(old) + 2
                /\ SubSeq(new, 1, Len(old)) = old
                /\ new[Len(old) + 1].action_type = ANSWERED_ABOUT_WATCHED_VIDEO
                /\ new[Len(old) + 1].user_id = Applicant
                /\ new[Len(old) + 1].extra = Answered("no")
                /\ new[Len(old) + 2].action_type = ASKED_TO_SHOOT_VIDEO
                /\ new[Len(old) + 2].user_id = Applicant
                /\ trace'[Len(trace')] = Eff("send", QUESTION_TEXT, <<"yes", "maybe", "no">>)
                /\ (inputs = <<"start">> =>
                        CountType(new, ANSWERED_ABOUT_WATCHED_VIDEO) = 1)
      ]_vars

C3_Witness ==
    /\ inputs = <<"start", "video_no">>
    /\ CountType(ApplicantEvents, ANSWERED_ABOUT_WATCHED_VIDEO) = 1
    /\ keyboards[QUESTION_TEXT] = 1

----------------------------------------------------------------------------
(* Properties of the action log *)

\* C4: whatever log calls were made for users 1 and 2, in whatever order,
\* get_user_actions(u) is the sequence of the events those calls were
\* asked to record for u, in the order of the calls; and that is what a
\* call of get_user_actions returned.
C4_ActionsForInCallOrder ==
    /\ \A u \in Users :
           get_user_actions(actions_file, u)
               = SelectSeq(recorded, LAMBDA e : e.user_id = u)
    /\ call.op = "get_user_actions" =>
           result = SelectSeq(recorded, LAMBDA e : e.user_id = call.user[1])

C4_Witness ==
    /\ call.op = "get_user_actions"
    /\ Len(result) = 2
    /\ Len(recorded) = 3
    /\ recorded[2].user_id /= call.user[1]
    /\ recorded[1].action_type /= recorded[3].action_type

\* C5: a call of a log_* function for an update without a user leaves the
\* log file as it was.
C5_NoUserNoAppend ==
    [][(call'.op = "log" /\ call'.user = None) => actions_file' = actions_file]_vars

C5_Witness ==
    /\ call.op = "log"
    /\ call.user = None
    /\ Len(Events) = 2

RECURSIVE SumOf(_)
SumOf(d) ==
    IF DOMAIN d = {} THEN 0
    ELSE LET k == CHOOSE k \in DOMAIN d : TRUE
         IN  d[k] + SumOf([x \in DOMAIN d \ {k} |-> d[x]])

\* the instants at which events of a sequence were recorded
InstantsOf(events) ==
    {t \in Instants : \E i \in DOMAIN events : events[i].timestamp = isoformat(t)}

\* C10: the summary of a user with events has total_actions equal to the
\* number of events get_user_actions returns, an action_counts entry per
\* type equal to the number of the user's events of that type (none for a
\* type without events, so the counts sum to the total), and first_action
\* and last_action equal to the timestamps of the chronologically first
\* and last of the user's events; the summary of a user without events is
\* the empty summary, with total_actions 0.
C10_SummaryCounts ==
    call.op = "get_user_action_summary" =>
        LET u == call.user[1]
            events == get_user_actions(actions_file, u)
            at == InstantsOf(events)
        IN  IF events = <<>>
            THEN result = [user_id |-> u, total_actions |-> 0, actions |-> <<>>]
            ELSE /\ result.user_id = u
                 /\ result.total_actions = Len(events)
                 /\ result.actions = events
                 /\ \A ty \in ActionType :
                        IF CountType(events, ty) = 0
                        THEN ty \notin DOMAIN result.action_counts
                        ELSE /\ ty \in DOMAIN result.action_counts
                             /\ result.action_counts[ty] = CountType(events, ty)
                 /\ SumOf(result.action_counts) = result.total_actions
                 /\ \E first \in at :
                        /\ \A t \in at : ~Before(t, first)
                        /\ result.first_action = Some(isoformat(first))
                 /\ \E last \in at :
                        /\ \A t \in at : ~Before(last, t)
                        /\ result.last_action = Some(isoformat(last))

\* a summary of three events of two types, logged out of chronological
\* order, one of them at a whole second
C10_Witness ==
    /\ call.op = "get_user_action_summary"
    /\ result.total_actions = 3
    /\ Cardinality(DOMAIN result.action_counts) = 2
    /\ result.actions[1].timestamp = result.last_action[1]
    /\ result.actions[3].timestamp /= result.first_action[1]
    /\ Len(result.first_action[1]) < Len(result.last_action[1])

C10_EmptyWitness ==
    /\ call.op = "get_user_action_summary"
    /\ result.total_actions = 0
    /\ Len(Events) = 2

----------------------------------------------------------------------------
(* Properties of the user registry *)

\* the entries of the first call for each user id, in the order of the calls
RECURSIVE FirstCalls(_)
FirstCalls(calls) ==
    IF calls = <<>> THEN <<>>
    ELSE LET before == SubSeq(calls, 1, Len(calls) - 1)
             last == calls[Len(calls)]
         IN  IF last.user_id = None
                \/ \E j \in DOMAIN before : before[j].user_id = last.user_id
             THEN FirstCalls(before)
             ELSE Append(FirstCalls(before), CleanEntry(last))

Registry == ReadExisting(users_file)

\* C6: after any calls of collect_user_data the registry holds exactly
\* one record for each user id the calls had, with the username,
\* first_name, last_name and language_code of the first call for that id,
\* and nothing else; the records stand in the order of those first calls,
\* so a later call for a known id changes nothing.
C6_FirstWriteWins ==
    /\ \A u \in Users :
           LET seen == {i \in DOMAIN recorded : recorded[i].user_id = Some(u)}
               stored == {i \in DOMAIN Registry : Registry[i].user_id = u}
           IN  IF seen = {} THEN stored = {}
               ELSE /\ Cardinality(stored) = 1
                    /\ \A i \in stored, j \in seen :
                           (\A k \in seen : j <= k) =>
                               Registry[i] = CleanEntry(recorded[j])
    /\ \A i \in DOMAIN Registry : Registry[i].user_id \in Users
    /\ Registry = FirstCalls(recorded)

\* a user seen three times, first as bob, with another user in between
C6_Witness ==
    /\ Len(recorded) = 4
    /\ recorded[1].user_id = recorded[3].user_id
    /\ recorded[1].user_id = recorded[4].user_id
    /\ recorded[1].username /= recorded[3].username
    /\ recorded[1].username = "bob"
    /\ Len(Registry) = 2
    /\ Registry[1].username = "bob"

----------------------------------------------------------------------------
(* Properties of the validator and of handle_video *)

\* C7: _validate_incoming_video returns the too-long message exactly
\* when duration > max_duration; otherwise the too-large message exactly
\* when the size is given and is more than 50 * 1024 * 1024 bytes;
\* otherwise "".  With the default limit 90 s passes and 91 s fails, and
\* exactly 50 MB passes.
C7_ValidateDecision ==
    call.op = "validate" =>
        LET d == call.duration
            fs == call.file_size
            too_long == d > call.max_duration
            too_large == fs /= None /\ fs[1] > 50 * 1024 * 1024
        IN  /\ result = TOO_LONG <=> too_long
            /\ result = TOO_LARGE <=> (~too_long /\ too_large)
            /\ result = "" <=> (~too_long /\ ~too_large)
            /\ (call.max_duration = 90 /\ d = 90 /\ fs = Some(50 * 1024 * 1024)) =>
                   result = ""
            /\ (call.max_duration = 90 /\ d = 91) => result = TOO_LONG

\* a video over both limits
C7_Witness ==
    /\ call.op = "validate"
    /\ call.duration = 91
    /\ call.max_duration = 90
    /\ call.file_size = Some(50 * 1024 * 1024 + 1)
    /\ result = TOO_LONG

C7_BoundaryWitness ==
    /\ call.op = "validate"
    /\ call.duration = 90
    /\ call.max_duration = 90
    /\ call.file_size = Some(50 * 1024 * 1024)
    /\ result = ""

\* the duration the platform reported for a message: a document has none
Reported(m) == IF m.kind = "document_video" THEN None ELSE m.duration

\* C8: handle_video does not answer too long to a message whose duration
\* is 0 or not reported, nor too large to one whose size is 0 or not
\* reported; a message with neither reported (or 0) is staged: the
\* pending_* keys hold its file id, kind and duration, a sent_video event
\* is logged and the confirm prompt is sent.
C8_UnreportedPasses ==
    call.op = "handle_video" =>
        LET m == call.message
            no_duration == Reported(m) \in {None, Some(0)}
            no_size == m.file_size \in {None, Some(0)}
        IN  /\ no_duration => ~Sent(trace, TOO_LONG, <<>>)
            /\ no_size => ~Sent(trace, TOO_LARGE, <<>>)
            /\ (no_duration /\ no_size) =>
                   /\ PendingKeys \subseteq DOMAIN user_data
                   /\ user_data["pending_file_id"] = m.file_id
                   /\ user_data["pending_kind"] = m.kind
                   /\ user_data["pending_duration"] = Reported(m)
                   /\ CountType(ApplicantEvents, SENT_VIDEO) = 1
                   /\ Sent(trace, CONFIRM_TEXT, <<"confirm_yes_privacy", "confirm_no">>)

\* a document without duration and size, staged over an earlier video
C8_Witness ==
    /\ call.op = "handle_video"
    /\ call.message.kind = "document_video"
    /\ call.message.file_size = None
    /\ "pending_file_id" \in DOMAIN user_data
    /\ user_data["pending_file_id"] = call.message.file_id
    /\ user_data["pending_kind"] = "document_video"
    /\ user_data["pending_duration"] = None

----------------------------------------------------------------------------
(* Properties of the store *)

\* s is a prefix of t
IsPrefix(s, t) == Len(s) <= Len(t) /\ SubSeq(t, 1, Len(s)) = s

\* C11: the events the log held before a record call are a prefix of the
\* events it holds after the call: none was changed, reordered or removed.
C11_AppendOnly ==
    call.op = "log_under" => IsPrefix(call.before.data, ReadExisting(actions_file))

\* C15: a record call that finds the log file corrupt (its text does not
\* parse, or parses to something that is no list) while the file
\* operations work leaves a log that consists of exactly the event just
\* recorded.
C15_CorruptTreatedAsEmpty ==
    (call.op = "log_under" /\ call.io = StorageOk /\ call.before \in {Unparseable, NotAList})
        => /\ actions_file = WriteList(<<recorded[Len(recorded)]>>)
           /\ get_user_actions(actions_file, call.user[1]) = <<recorded[Len(recorded)]>>

\* a log torn by a failed write, found corrupt by the next record call
C15_Witness ==
    /\ call.op = "log_under"
    /\ call.io = StorageOk
    /\ call.before = Unparseable
    /\ Len(recorded) = 3
    /\ Len(Events) = 1
    /\ Events[1] = recorded[3]

C15_NotAListWitness ==
    /\ call.op = "log_under"
    /\ call.io = StorageOk
    /\ call.before = NotAList
    /\ Len(Events) = 1

----------------------------------------------------------------------------
(* Properties of the pending submission *)

\* a message within the limits: its duration, when reported, is at most
\* MAX_DURATION_SECS, and its size, when reported, at most 50 MB
WithinLimits(m) ==
    /\ OrZero(Reported(m)) <= MAX_DURATION_SECS
    /\ OrZero(m.file_size) <= 50 * MB

\* C17: after handle_video took a message within the limits, the session
\* holds pending_file_id, pending_kind and pending_duration with the file
\* id, kind and duration of that message, whatever was staged before, and
\* besides these only collected_user: nothing of the earlier video and no
\* video_confirmation_processed flag is left.
C17_OnePendingSubmission ==
    (call.op = "handle_video" /\ WithinLimits(call.message)) =>
        /\ DOMAIN user_data = PendingKeys \cup {"collected_user"}
        /\ user_data["pending_file_id"] = call.message.file_id
        /\ user_data["pending_kind"] = call.message.kind
        /\ user_data["pending_duration"] = Reported(call.message)

\* a document, which has no duration, staged over a video note of 30 s
\* whose download had failed
C17_Witness ==
    /\ call.op = "handle_video"
    /\ call.message.kind = "document_video"
    /\ "video_confirmation_processed" \in DOMAIN call.before
    /\ call.before["pending_duration"] = Some(30)
    /\ "pending_duration" \in DOMAIN user_data
    /\ user_data["pending_duration"] = None
    /\ user_data["pending_kind"] = "document_video"

\* C20: after handle_video took a message over a limit, the run sent
\* exactly one message, the too-long text if the duration is over
\* MAX_DURATION_SECS and else the too-large text; pending_file_id,
\* pending_kind and pending_duration are as they were before (absent if
\* absent, else with the same values), as is the processed flag; the log
\* got no event; and no keyboard was sent.
C20_InvalidVideoLeavesState ==
    (call.op = "handle_video" /\ ~WithinLimits(call.message)) =>
        /\ trace = <<Eff("send",
                         IF OrZero(Reported(call.message)) > MAX_DURATION_SECS
                         THEN TOO_LONG ELSE TOO_LARGE, <<>>)>>
        /\ \A k \in PendingKeys \cup {"video_confirmation_processed"} :
               /\ k \in DOMAIN user_data <=> k \in DOMAIN call.before
               /\ k \in DOMAIN user_data => user_data[k] = call.before[k]
        /\ Events = <<>>
        /\ keyboards = NoKeyboards

\* a video that is too long, sent while another one is staged
C20_Witness ==
    /\ call.op = "handle_video"
    /\ call.message.duration = Some(MAX_DURATION_SECS + 1)
    /\ Sent(trace, TOO_LONG, <<>>)
    /\ "pending_file_id" \in DOMAIN user_data
    /\ user_data["pending_file_id"] = 0
    /\ user_data["pending_duration"] = Some(40)

\* a document that is too large, sent to an empty session
C20_TooLargeWitness ==
    /\ call.op = "handle_video"
    /\ call.message.kind = "document_video"
    /\ Sent(trace, TOO_LARGE, <<>>)
    /\ PendingKeys \cap DOMAIN user_data = {}

\* C19: after a privacy_confirm_no callback was handled the session holds
\* none of pending_file_id, pending_kind and pending_duration.
C19_PrivacyNoClearsPending ==
    (inputs /= <<>> /\ inputs[Len(inputs)] = "privacy_confirm_no") =>
        PendingKeys \cap DOMAIN user_data = {}

----------------------------------------------------------------------------
(* Properties of failing operations *)

\* C14: whatever the file operations do during a handler run, no
\* exception leaves the handler, and the run sends the messages, makes
\* the changes to the session, attaches and removes the keyboards and
\* downloads the files that the same handler makes from the same state
\* when the file operations succeed.
C14_StorageFailureSwallowed ==
    [][inputs' /= inputs =>
           LET good == Handle(Ctx, RunWith({}), call'.op, call'.message)
           IN  /\ ~Raised([tr |-> trace'])
               /\ trace' = good.tr
               /\ user_data' = good.ud
               /\ keyboards' = good.kb
               /\ downloads' = good.dl
      ]_vars

\* a video staged and the confirm prompt sent while the write of the log
\* was torn and the registry, torn before, was found unparseable
C14_Witness ==
    /\ inputs = <<"start", "vid_ok">>
    /\ actions_file = Unparseable
    /\ users_file = Unparseable
    /\ PendingKeys \subseteq DOMAIN user_data
    /\ Sent(trace, CONFIRM_TEXT, <<"confirm_yes_privacy", "confirm_no">>)

\* C16: no handler run ends with an exception, whichever of the platform
\* operations it performs fail.
C16_NoExceptionEscapes == ~Raised([tr |-> trace])

\* C18: after a run of the confirm_no handler that ended normally, and
\* after a run of the privacy_confirm_yes handler that downloaded the
\* video, the session holds none of pending_file_id, pending_kind and
\* pending_duration.
C18_PendingClearedOnConfirm ==
    LET last == inputs[Len(inputs)]
    IN  (inputs /= <<>> /\ ~Raised([tr |-> trace])
           /\ \/ last = "confirm_no"
              \/ last = "privacy_confirm_yes"
                    /\ \E i \in DOMAIN trace : trace[i].e = "download")
            => PendingKeys \cap DOMAIN user_data = {}

\* the events of the log written by the run of the update number id
OfRun(events, id) ==
    SelectSeq(events, LAMBDA a : a.timestamp = isoformat([s |-> id, us |-> 0]))

\* C12: once every handler has returned, the log holds every event that
\* the handlers of all sessions wrote, in the order they wrote them,
\* whichever way the dispatcher ordered their steps.
C12_NoLostUpdate ==
    runs = <<>> => ReadExisting(actions_file) = recorded

C12_Witness ==
    /\ runs = <<>>
    /\ "behind" \in DOMAIN call
    /\ \E u \in call.behind : Some(u) /= call.user
    /\ \A u \in Users : get_user_actions(actions_file, u) /= <<>>

\* C13: the events one handler run appended are contiguous among the
\* events of its user, and while a handler run is in progress the pending
\* submission of its session is not changed.
C13_HandlersDoNotInterleave ==
    [][(\A u \in Users :
            LET mine == get_user_actions(actions_file', u)
            IN  \A i, j, k \in DOMAIN mine :
                    i < j /\ j < k /\ mine[i].timestamp = mine[k].timestamp
                        => mine[j].timestamp = mine[i].timestamp)
       /\ (\A r \in DOMAIN runs :
            runs[r].started /\ (\E q \in DOMAIN runs' : runs'[q].id = runs[r].id)
                => \A key \in PendingKeys :
                       Get(sessions'[runs[r].user].ud, key)
                           = Get(sessions[runs[r].user].ud, key))]_vars

C13_Witness ==
    /\ Len(runs) = 2
    /\ runs[1].started /\ runs[1].steps /= <<>>
    /\ runs[2].user = runs[1].user
    /\ OfRun(ReadExisting(actions_file), runs[1].id) /= <<>>

----------------------------------------------------------------------------
(* Properties of the confirmation and of the download *)

\* the run fetched the file and did not store it
DownloadFailed(tr) ==
    /\ \E i \in DOMAIN tr : tr[i].e = "get_file"
    /\ \A i \in DOMAIN tr : tr[i].e /= "download"

\* C21: when the download fails in a run of privacy_confirm_yes with a
\* pending video, the user gets the download-error text (unless sending
\* it raises), never the saved text, and the three pending keys keep the
\* values they had before the run.
C21_DownloadFailureKeepsPending ==
    [][(call'.op = "privacy_confirm_yes" /\ inputs' /= inputs /\ DownloadFailed(trace'))
          => /\ \/ \E i \in DOMAIN trace' :
                       /\ trace'[i].e \in {"edit", "send"}
                       /\ trace'[i].a = "DOWNLOAD_ERROR"
                \/ Raised([tr |-> trace'])
             /\ \A i \in DOMAIN trace' : trace'[i].a /= VIDEO_SAVED_TEXT
             /\ PendingKeys \subseteq DOMAIN user_data
             /\ \A k \in PendingKeys :
                    k \in DOMAIN user_data' /\ user_data'[k] = user_data[k]]_vars

C21_Witness ==
    /\ call.op = "privacy_confirm_yes"
    /\ DownloadFailed(trace)
    /\ Sent(trace, "DOWNLOAD_ERROR", <<>>)
    /\ Get(user_data, "pending_kind") = "video"
    /\ downloads = <<>>

----------------------------------------------------------------------------
(* Properties of start *)

\* the text messages of a run, in the order sent
TextsSent(tr) ==
    LET sends == SelectSeq(tr, LAMBDA step : step.e = "send")
    IN  [i \in DOMAIN sends |-> sends[i].a]

\* C22: whatever start finds in the manager_video directory and whether
\* or not the manager video is delivered, the run ends with the append of
\* asked_about_watched_video followed by the ASK_WATCHED prompt; when the
\* directory does not validate, one error text and nothing else lies
\* between the intro text and the prompt.
C22_StartGoesOnToAskWatched ==
    (call.op = "start" /\ "manager_dir" \in DOMAIN call) =>
        LET n == Len(trace)
            checked == validate_video_directory(call.manager_dir)
        IN  /\ n >= 2
            /\ trace[n] = Eff("send", ASK_WATCHED,
                              <<"video_yes", "video_no", "video_not_seen">>)
            /\ trace[n - 1] = Eff("log", ASKED_ABOUT_WATCHED_VIDEO, <<>>)
            /\ Events[Len(Events)].action_type = ASKED_ABOUT_WATCHED_VIDEO
            /\ keyboards[ASK_WATCHED] > 0
            /\ checked /= "ok" =>
                   /\ TextsSent(trace) = <<INTRO_TEXT, "MANAGER_VIDEO_ERROR", ASK_WATCHED>>
                   /\ \A i \in DOMAIN trace : trace[i].e /= "send_video"
            /\ (checked = "ok" /\ ~call.send_video_ok) =>
                   TextsSent(trace) = <<INTRO_TEXT, "SEND_VIDEO_ERROR", ASK_WATCHED>>
            /\ (checked = "ok" /\ call.send_video_ok) =>
                   TextsSent(trace) = <<INTRO_TEXT, ASK_WATCHED>>

C22_Witness ==
    /\ call.op = "start"
    /\ "manager_dir" \in DOMAIN call
    /\ call.manager_dir = TwoDir
    /\ Sent(trace, "MANAGER_VIDEO_ERROR", <<>>)
    /\ Sent(trace, ASK_WATCHED, <<"video_yes", "video_no", "video_not_seen">>)

C22_SendFailureWitness ==
    /\ call.op = "start"
    /\ "manager_dir" \in DOMAIN call
    /\ call.manager_dir = GoodDir /\ ~call.send_video_ok
    /\ Sent(trace, ASK_WATCHED, <<"video_yes", "video_no", "video_not_seen">>)

\* the position of the last start among the updates, or 0
LastStart(updates) ==
    LET starts == {i \in DOMAIN updates : updates[i] = "start"}
    IN  IF starts = {} THEN 0 ELSE CHOOSE i \in starts : \A j \in starts : j <= i

\* C23: after a start the session holds no pending submission, and a
\* privacy_confirm_yes never downloads a video that was sent before the
\* last start (the file_id of a video is its position among the updates).
C23_RestartKeepsNoProgress ==
    /\ call.op = "start" => PendingKeys \cap DOMAIN user_data = {}
    /\ (call.op = "privacy_confirm_yes"
           /\ \E i \in DOMAIN trace : trace[i].e = "download")
          => downloads[Len(downloads)].file_id > LastStart(inputs)

----------------------------------------------------------------------------
(* Properties of the order of the steps of a run *)

\* the callback_data of the buttons the prompts carry
ButtonData ==
    WatchedData \cup ShootData \cup ReasonData \cup PrivacyData
        \cup {"confirm_yes_privacy", "confirm_no"}

\* C24: the run of a button press begins with the acknowledgement of the
\* callback query: no event is appended and no message sent before it.
C24_AcknowledgedFirst ==
    call.op \in ButtonData => (trace /= <<>> /\ trace[1].e = "ack")

\* C25: in the user's log every sent_video event comes after a
\* got_instructions event.
C25_VideoOnlyAfterInstructions ==
    \A i \in DOMAIN ApplicantEvents :
        ApplicantEvents[i].action_type = SENT_VIDEO
            => \E j \in 1..(i - 1) : ApplicantEvents[j].action_type = GOT_INSTRUCTIONS

\* the prompts of the steps, and the event each step logs
StepPrompts == KeyboardPrompts \cup {INSTRUCTIONS_TO_SHOOT_VIDEO_TEXT}

PromptEvent(text) ==
    CASE text = ASK_WATCHED -> ASKED_ABOUT_WATCHED_VIDEO
      [] text = QUESTION_TEXT -> ASKED_TO_SHOOT_VIDEO
      [] text = CONFIRM_TEXT -> ASKED_TO_CONFIRM_SENDING
      [] text = PRIVACY_TEXT -> ASKED_TO_CONFIRM_PRIVACY
      [] text = ASK_WHY -> ASKED_WHY_HESITANT_OR_REJECT
      [] text = INSTRUCTIONS_TO_SHOOT_VIDEO_TEXT -> GOT_INSTRUCTIONS

AnsweredTypes ==
    {ANSWERED_ABOUT_WATCHED_VIDEO, ANSWERED_TO_SHOOT_VIDEO, ANSWERED_CONFIRM_SENDING,
     ANSWERED_CONFIRM_PRIVACY, ANSWERED_WHY_HESITANT_OR_REJECT}

\* every prompt of the run was sent after its event was logged in the run
AskedBeforePrompt(tr) ==
    \A i \in DOMAIN tr :
        (tr[i].e = "send" /\ tr[i].a \in StepPrompts)
            => \E j \in 1..(i - 1) : tr[j] = Eff("log", PromptEvent(tr[i].a), <<>>)

\* every prompt of the run was sent after an answered event was logged
AnsweredBeforePrompt(tr) ==
    \A i \in DOMAIN tr :
        (tr[i].e = "send" /\ tr[i].a \in StepPrompts)
            => \E j \in 1..(i - 1) : tr[j].e = "log" /\ tr[j].a \in AnsweredTypes

\* the log steps of the run are the last events of the log, in order
LogStepsAppended(tr) ==
    LET logs == SelectSeq(tr, LAMBDA step : step.e = "log")
        n == Len(Events) - Len(logs)
    IN  /\ n >= 0
        /\ \A k \in DOMAIN logs : Events[n + k].action_type = logs[k].a

\* C26 as stated: in every run each prompt is sent after its asked event
\* (or got_instructions) was appended, and in the run of every button
\* press an answered event is appended before the prompt that follows.
C26_LogBeforePrompt ==
    /\ AskedBeforePrompt(trace)
    /\ call.op \in ButtonData => AnsweredBeforePrompt(trace)

\* C26 amended: as stated, except for the press of confirm_yes_privacy,
\* whose run appends no answered event at all before the privacy prompt.
C26_LogBeforePromptAmended ==
    /\ AskedBeforePrompt(trace)
    /\ LogStepsAppended(trace)
    /\ call.op \in ButtonData \ {"confirm_yes_privacy"} => AnsweredBeforePrompt(trace)
    /\ call.op = "confirm_yes_privacy" =>
           \A i \in DOMAIN trace : trace[i].a \notin AnsweredTypes

C26_Witness ==
    /\ call.op = "video_no"
    /\ \E i, j, k \in DOMAIN trace :
           /\ i < j /\ j < k
           /\ trace[i] = Eff("log", ANSWERED_ABOUT_WATCHED_VIDEO, <<>>)
           /\ trace[j] = Eff("log", ASKED_TO_SHOOT_VIDEO, <<>>)
           /\ trace[k] = Eff("send", QUESTION_TEXT, <<"yes", "maybe", "no">>)

C26_PrivacyWitness ==
    /\ call.op = "confirm_yes_privacy"
    /\ Sent(trace, PRIVACY_TEXT, <<"privacy_confirm_yes", "privacy_confirm_no">>)

----------------------------------------------------------------------------
(* Properties of the steps of the conversation *)

ReasonButtons ==
    <<"reason_no_company", "reason_no_awkward", "reason_no_dont_know",
      "reason_no_privacy", "reason_no_other">>

\* C27: the run of an answer to ASK_SHOOT appends answered_to_shoot_video
\* with the token pressed and then one more event: for yes
\* got_instructions, the instructions being the only text sent; for
\* maybe and no asked_why_hesitant_or_reject, the reason prompt with its
\* five buttons being the only text sent.
C27_ShootAnswerBranches ==
    [][(call'.op \in ShootData /\ inputs' /= inputs) =>
          LET before == ReadExisting(actions_file)
              after == ReadExisting(actions_file')
              new == SubSeq(after, Len(before) + 1, Len(after))
          IN  /\ IsPrefix(before, after)
              /\ Len(new) = 2
              /\ new[1].action_type = ANSWERED_TO_SHOOT_VIDEO
              /\ new[1].extra = Answered(call'.op)
              /\ call'.op = "yes" =>
                     /\ new[2].action_type = GOT_INSTRUCTIONS
                     /\ TextsSent(trace') = <<INSTRUCTIONS_TO_SHOOT_VIDEO_TEXT>>
              /\ call'.op \in {"maybe", "no"} =>
                     /\ new[2].action_type = ASKED_WHY_HESITANT_OR_REJECT
                     /\ TextsSent(trace') = <<ASK_WHY>>
                     /\ trace'[Len(trace')] = Eff("send", ASK_WHY, ReasonButtons)]_vars

C27_Witness ==
    /\ call.op = "maybe"
    /\ Sent(trace, ASK_WHY, ReasonButtons)
    /\ Events[Len(Events) - 1].extra = Answered("maybe")

C27_YesWitness ==
    /\ call.op = "yes"
    /\ Sent(trace, INSTRUCTIONS_TO_SHOOT_VIDEO_TEXT, <<>>)
    /\ Events[Len(Events)].action_type = GOT_INSTRUCTIONS

\* the updates are n rounds of (valid video, confirm_no) in a session that
\* is fresh or has just got the instructions, then rest
RoundsThen(updates, rest) ==
    \E lead \in {<<>>, <<"start", "video_yes", "yes">>} :
        LET loop == SubSeq(updates, Len(lead) + 1, Len(updates) - Len(rest))
        IN  /\ Len(updates) >= Len(lead) + Len(rest)
            /\ updates = lead \o loop \o rest
            /\ Len(loop) % 2 = 0
            /\ \A i \in DOMAIN loop :
                   IF i % 2 = 1 THEN loop[i] \in {"vid_ok", "vid_doc"}
                   ELSE loop[i] = "confirm_no"

\* the number of videos among the updates
VideosIn(updates) == Cardinality({i \in DOMAIN updates : updates[i] \in VideoNames})

\* C28: after any number of rounds of (valid video, confirm_no) the
\* session holds no pending submission and the user is told to record a
\* new video; a further valid video is staged, logged as sent_video and
\* followed by a new confirm prompt.
C28_ResubmitLoop ==
    /\ (inputs /= <<>> /\ inputs[Len(inputs)] = "confirm_no" /\ RoundsThen(inputs, <<>>))
          => /\ PendingKeys \cap DOMAIN user_data = {}
             /\ Sent(trace, "RECORD_NEW_VIDEO", <<>>)
    /\ \A name \in {"vid_ok", "vid_doc"} :
          RoundsThen(inputs, <<name>>)
              => /\ PendingKeys \subseteq DOMAIN user_data
                 /\ user_data["pending_file_id"] = Len(inputs)
                 /\ user_data["pending_kind"] = VideoMessage(name).kind
                 /\ "video_confirmation_processed" \notin DOMAIN user_data
                 /\ Len(Events) >= 2
                 /\ Events[Len(Events) - 1].action_type = SENT_VIDEO
                 /\ Events[Len(Events)].action_type = ASKED_TO_CONFIRM_SENDING
                 /\ CountType(ApplicantEvents, SENT_VIDEO) = VideosIn(inputs)
                 /\ trace[Len(trace)]
                        = Eff("send", CONFIRM_TEXT, <<"confirm_yes_privacy", "confirm_no">>)
                 /\ keyboards[CONFIRM_TEXT] = VideosIn(inputs)

C28_Witness ==
    /\ inputs = <<"vid_ok", "confirm_no", "vid_doc", "confirm_no", "vid_ok">>
    /\ "pending_file_id" \in DOMAIN user_data
    /\ user_data["pending_file_id"] = 5
    /\ keyboards[CONFIRM_TEXT] = 3

\* C29: a step stores a video only if it is the run of
\* privacy_confirm_yes and the run appended answered_confirm_privacy with
\* answer "yes" before it downloaded; the runs of confirm_yes_privacy,
\* confirm_no and privacy_confirm_no download nothing.
C29_NoDownloadWithoutConsent ==
    [][/\ downloads' /= downloads =>
             LET before == ReadExisting(actions_file)
                 after == ReadExisting(actions_file')
             IN  /\ call'.op = "privacy_confirm_yes"
                 /\ \E i, j \in DOMAIN trace' :
                        /\ i < j
                        /\ trace'[i] = Eff("log", ANSWERED_CONFIRM_PRIVACY, <<>>)
                        /\ trace'[j].e = "download"
                        /\ \A k \in DOMAIN trace' : trace'[k].e = "download" => i < k
                 /\ \E k \in (Len(before) + 1)..Len(after) :
                        /\ after[k].action_type = ANSWERED_CONFIRM_PRIVACY
                        /\ after[k].extra = Answered("yes")
       /\ (inputs' /= inputs
             /\ call'.op \in {"confirm_yes_privacy", "confirm_no", "privacy_confirm_no"})
            => /\ downloads' = downloads
               /\ \A i \in DOMAIN trace' : trace'[i].e \notin {"get_file", "download"}]_vars

C29_Witness ==
    /\ call.op = "privacy_confirm_yes"
    /\ Len(downloads) = 1
    /\ \E i \in DOMAIN trace : trace[i].e = "download"
    /\ CountType(ApplicantEvents, ANSWERED_CONFIRM_PRIVACY) = 1

\* C30: the run of a callback whose data is on no button of any prompt
\* does nothing: no step, no event, no message, the session and the files
\* as they were.
C30_StrayTokenIsNoOp ==
    [][(inputs' /= inputs /\ call'.op \in StrayData)
          => /\ trace' = <<>>
             /\ actions_file' = actions_file
             /\ users_file' = users_file
             /\ user_data' = user_data
             /\ keyboards' = keyboards
             /\ downloads' = downloads]_vars

----------------------------------------------------------------------------
(* Properties of the processed flag and of what is downloaded *)

\* the run tried to fetch the pending file
Attempted(tr) ==
    \E i \in DOMAIN tr :
        tr[i].e = "get_file" \/ (tr[i].e = "raise" /\ tr[i].a = "get_file")

\* the dicts d and e agree on the key k
SameAt(d, e, k) ==
    /\ (k \in DOMAIN d) = (k \in DOMAIN e)
    /\ k \in DOMAIN d => d[k] = e[k]

\* C31: while video_confirmation_processed is set, a confirm_no or
\* privacy_confirm_yes downloads nothing, fetches nothing, appends no
\* answered_confirm_sending and leaves the pending keys and the flag as
\* they are; a fetch is tried only in a run of privacy_confirm_yes that
\* finds the flag unset and sets it; only a valid video unsets it; no file
\* is downloaded twice.
C31_ProcessedConfirmationIgnored ==
    [][inputs' /= inputs =>
          /\ ("video_confirmation_processed" \in DOMAIN user_data
                /\ call'.op \in {"confirm_no", "privacy_confirm_yes"})
               => /\ downloads' = downloads
                  /\ ~Attempted(trace')
                  /\ \A i \in DOMAIN trace' : trace'[i].a /= ANSWERED_CONFIRM_SENDING
                  /\ \A k \in PendingKeys : SameAt(user_data', user_data, k)
                  /\ "video_confirmation_processed" \in DOMAIN user_data'
          /\ Attempted(trace')
               => /\ call'.op = "privacy_confirm_yes"
                  /\ "video_confirmation_processed" \notin DOMAIN user_data
                  /\ "video_confirmation_processed" \in DOMAIN user_data'
          /\ ("video_confirmation_processed" \in DOMAIN user_data
                /\ "video_confirmation_processed" \notin DOMAIN user_data')
               => /\ call'.op = "vid_ok"
                  /\ "pending_file_id" \in DOMAIN user_data'
                  /\ user_data'["pending_file_id"] = Len(inputs')
          /\ \A i, j \in DOMAIN downloads' :
                 i /= j => downloads'[i].file_id /= downloads'[j].file_id]_vars

\* a second privacy_confirm_yes after one whose download failed
C31_Witness ==
    /\ Len(inputs) >= 4
    /\ inputs[Len(inputs) - 1] = "privacy_confirm_yes"
    /\ call.op = "privacy_confirm_yes"
    /\ "pending_file_id" \in DOMAIN user_data
    /\ "video_confirmation_processed" \in DOMAIN user_data
    /\ downloads = <<>>
    /\ trace = <<Eff("ack", "", <<>>), Eff("log", ANSWERED_CONFIRM_PRIVACY, <<>>),
                 Eff("ack", "", <<>>)>>

\* a press after one that found no video pending
C31_NoVideoWitness ==
    /\ call.op = "confirm_no"
    /\ "pending_file_id" \notin DOMAIN user_data
    /\ "video_confirmation_processed" \in DOMAIN user_data
    /\ downloads = <<>>
    /\ trace = <<Eff("ack", "", <<>>)>>

\* C32: a valid video unsets video_confirmation_processed, and the
\* privacy_confirm_yes that follows the video and its confirm_yes_privacy
\* tries to fetch it; when get_file and the download work, the video is
\* stored, the pending keys are cleared and the saved text is sent.
C32_NewVideoRestartsConfirmation ==
    [][inputs' /= inputs =>
          /\ call'.op = "vid_ok" => "video_confirmation_processed" \notin DOMAIN user_data'
          /\ (/\ call'.op = "privacy_confirm_yes"
              /\ inputs[Len(inputs)] = "confirm_yes_privacy"
              /\ inputs[Len(inputs) - 1] = "vid_ok")
               => /\ Attempted(trace')
                  /\ call'.failed \cap {"get_file", "download"} = {}
                       => /\ Len(downloads') = Len(downloads) + 1
                          /\ downloads'[Len(downloads')].file_id = Len(inputs) - 1
                          /\ Sent(trace', VIDEO_SAVED_TEXT, <<>>)
                          /\ PendingKeys \cap DOMAIN user_data' = {}]_vars

\* the second video is saved after the download of the first failed
C32_Witness ==
    /\ inputs = <<"vid_ok", "confirm_yes_privacy", "privacy_confirm_yes",
                  "vid_ok", "confirm_yes_privacy", "privacy_confirm_yes">>
    /\ Len(downloads) = 1
    /\ downloads[1].file_id = 4
    /\ Sent(trace, VIDEO_SAVED_TEXT, <<>>)

\* the second video is saved after a press that found no video pending
C32_NoVideoWitness ==
    /\ inputs = <<"vid_ok", "confirm_yes_privacy", "confirm_no", "privacy_confirm_yes",
                  "vid_ok", "confirm_yes_privacy", "privacy_confirm_yes">>
    /\ Len(downloads) = 1
    /\ downloads[1].file_id = 5
    /\ Sent(trace, VIDEO_SAVED_TEXT, <<>>)

\* the position in inputs of the last video that passed validation
LastValidVideo ==
    CHOOSE i \in DOMAIN inputs :
        /\ inputs[i] = "vid_ok"
        /\ \A j \in DOMAIN inputs : inputs[j] = "vid_ok" => j <= i

\* C33: the file a run downloads is the last valid video the session
\* received, whichever prompt the pressed button was sent with.
C33_DownloadsLatestVideo ==
    (\E i \in DOMAIN trace : trace[i].e = "download")
        => /\ downloads /= <<>>
           /\ downloads[Len(downloads)].file_id = LastValidVideo

\* the privacy prompt of the first video is answered after a second video
\* has replaced it
C33_Witness ==
    /\ inputs = <<"vid_ok", "confirm_yes_privacy", "vid_ok", "privacy_confirm_yes">>
    /\ \E i \in DOMAIN trace : trace[i].e = "download"
    /\ Len(downloads) = 1
    /\ downloads[1].file_id = 3

\* C34 as stated: the saved text is sent only in a run that downloaded a
\* pending video, and a privacy_confirm_yes that finds no video pending
\* sends the no-video reply, downloads nothing and does not send the saved
\* text.
C34_SavedOnlyAfterDownload ==
    [][inputs' /= inputs =>
          /\ Sent(trace', VIDEO_SAVED_TEXT, <<>>)
               => /\ "pending_file_id" \in DOMAIN user_data
                  /\ \E i \in DOMAIN trace' : trace'[i].e = "download"
                  /\ Len(downloads') = Len(downloads) + 1
          /\ (call'.op = "privacy_confirm_yes" /\ "pending_file_id" \notin DOMAIN user_data)
               => /\ Sent(trace', "NO_VIDEO_TO_SAVE", <<>>)
                  /\ downloads' = downloads
                  /\ ~Attempted(trace')
                  /\ ~Sent(trace', VIDEO_SAVED_TEXT, <<>>)]_vars

\* C34, amended: the saved text is sent only in a run that downloaded a
\* pending video; a privacy_confirm_yes that finds no video pending
\* downloads nothing and does not send the saved text, and it sends the
\* no-video reply exactly when video_confirmation_processed is unset.
C34_SavedOnlyAfterDownloadAmended ==
    [][inputs' /= inputs =>
          /\ Sent(trace', VIDEO_SAVED_TEXT, <<>>)
               => /\ "pending_file_id" \in DOMAIN user_data
                  /\ \E i \in DOMAIN trace' : trace'[i].e = "download"
                  /\ Len(downloads') = Len(downloads) + 1
          /\ (call'.op = "privacy_confirm_yes" /\ "pending_file_id" \notin DOMAIN user_data)
               => /\ Sent(trace', "NO_VIDEO_TO_SAVE", <<>>)
                       <=> "video_confirmation_processed" \notin DOMAIN user_data
                  /\ "video_confirmation_processed" \in DOMAIN user_data
                       => \A i \in DOMAIN trace' : trace'[i].e \in {"ack", "log"}
                  /\ downloads' = downloads
                  /\ ~Attempted(trace')
                  /\ ~Sent(trace', VIDEO_SAVED_TEXT, <<>>)]_vars

\* a privacy_confirm_yes after confirm_no threw the video away gets the
\* no-video reply
C34_Witness ==
    /\ inputs = <<"vid_ok", "confirm_yes_privacy", "confirm_no", "privacy_confirm_yes">>
    /\ Sent(trace, "NO_VIDEO_TO_SAVE", <<>>)
    /\ downloads = <<>>

\* a second privacy_confirm_yes after the video was saved gets no reply
C34_SilentWitness ==
    /\ inputs = <<"vid_ok", "confirm_yes_privacy", "privacy_confirm_yes",
                  "privacy_confirm_yes">>
    /\ Len(downloads) = 1
    /\ "pending_file_id" \notin DOMAIN user_data
    /\ \A i \in DOMAIN trace : trace[i].e \in {"ack", "log"}

\* the types of the events the step appends to the log
AppendedTypes ==
    LET before == ReadExisting(actions_file)
        after == ReadExisting(actions_file')
    IN  [i \in 1..(Len(after) - Len(before)) |-> after[Len(before) + i].action_type]

\* C35: a run of start appends got_video exactly when the manager_video
\* directory validates and send_video succeeds, and then once; whatever
\* the directory and the delivery, the first event the run appends is
\* start or start_triggered_again.
C35_GotVideoIffDelivered ==
    [][(inputs' /= inputs /\ call'.op = "start" /\ "manager_dir" \in DOMAIN call') =>
          LET delivered == /\ validate_video_directory(call'.manager_dir) = "ok"
                           /\ call'.send_video_ok
              got == {i \in DOMAIN AppendedTypes : AppendedTypes[i] = GOT_VIDEO}
          IN  /\ Cardinality(got) = IF delivered THEN 1 ELSE 0
              /\ delivered <=> \E i \in DOMAIN trace' : trace'[i].e = "send_video"
              /\ AppendedTypes /= <<>>
              /\ AppendedTypes[1] \in {START, START_TRIGGERED_AGAIN}
              /\ \A i \in got : i = 2]_vars

\* a start that delivered the manager video and logged got_video
C35_Witness ==
    /\ call.op = "start"
    /\ "manager_dir" \in DOMAIN call
    /\ call.manager_dir = GoodDir /\ call.send_video_ok
    /\ \E i \in DOMAIN trace : trace[i] = Eff("log", GOT_VIDEO, <<>>)

\* a start whose send_video failed: start is logged, got_video is not
C35_SendFailureWitness ==
    /\ call.op = "start"
    /\ "manager_dir" \in DOMAIN call
    /\ call.manager_dir = GoodDir /\ ~call.send_video_ok
    /\ \E i \in DOMAIN trace : trace[i].e = "log" /\ trace[i].a \in {START, START_TRIGGERED_AGAIN}
    /\ \A i \in DOMAIN trace : trace[i] /= Eff("log", GOT_VIDEO, <<>>)

\* a start on a directory that does not validate: no got_video either
C35_InvalidDirWitness ==
    /\ call.op = "start"
    /\ "manager_dir" \in DOMAIN call
    /\ call.manager_dir = BigDir /\ call.send_video_ok
    /\ \E i \in DOMAIN trace : trace[i].e = "log" /\ trace[i].a \in {START, START_TRIGGERED_AGAIN}
    /\ \A i \in DOMAIN trace : trace[i] /= Eff("log", GOT_VIDEO, <<>>)

\* the asked event that goes with an answered event
AskedOf(answered) ==
    CASE answered = ANSWERED_ABOUT_WATCHED_VIDEO -> ASKED_ABOUT_WATCHED_VIDEO
      [] answered = ANSWERED_TO_SHOOT_VIDEO -> ASKED_TO_SHOOT_VIDEO
      [] answered = ANSWERED_CONFIRM_SENDING -> ASKED_TO_CONFIRM_SENDING
      [] answered = ANSWERED_CONFIRM_PRIVACY -> ASKED_TO_CONFIRM_PRIVACY
      [] answered = ANSWERED_WHY_HESITANT_OR_REJECT -> ASKED_WHY_HESITANT_OR_REJECT

\* C36: in the log of every user, each answered event comes after an
\* asked event of its kind of the same user.
C36_AnsweredAfterAsked ==
    \A u \in Users :
        LET events == get_user_actions(actions_file, u)
        IN  \A i \in DOMAIN events :
                events[i].action_type \in AnsweredTypes
                    => \E j \in 1..(i - 1) :
                           events[j].action_type = AskedOf(events[i].action_type)

\* a conversation that went from start to the saved video: four kinds of
\* answers are in the log
C36_Witness ==
    /\ call.op = "privacy_confirm_yes"
    /\ {ANSWERED_ABOUT_WATCHED_VIDEO, ANSWERED_TO_SHOOT_VIDEO, ANSWERED_CONFIRM_SENDING,
         ANSWERED_CONFIRM_PRIVACY}
           \subseteq {ApplicantEvents[i].action_type : i \in DOMAIN ApplicantEvents}

\* a conversation that ended with a reason
C36_ReasonWitness ==
    /\ call.op \in ReasonData
    /\ \E i \in DOMAIN ApplicantEvents :
           ApplicantEvents[i].action_type = ANSWERED_WHY_HESITANT_OR_REJECT

====
